---- MODULE Spec2Model ----
(***************************************************************************)
(* Percy Parser (src/src/parser.c): wrappers around strtoul/strtod with    *)
(* explicit outcomes, a complex-number parser and a memory-value parser.   *)
(*                                                                         *)
(* Text is a sequence of one-character strings.  A pointer into the text   *)
(* is a position 1..Len(s)+1; position Len(s)+1 holds the terminator.      *)
(* The C offset of a position p is p-1.                                    *)
(*                                                                         *)
(* A double is a record [k, m, e]: k = 0 is the finite value m x 10^e      *)
(* (m not divisible by 10, zero is m = 0, e = 0), k = 1 is +infinity,      *)
(* k = -1 is -infinity, k = 2 is NaN and k = 3 is a finite double whose    *)
(* decimal goes on after the digits of m (the limits of float.h, 2^64).    *)
(* A decimal whose significant digits make a number below 2^31 stands for  *)
(* the double nearest to it; -0.0 and 0.0 are one value, as they are under *)
(* the C comparison operators.  The arithmetic of stringToMemory is done   *)
(* on the binary64 form of the double, a record [cls, neg, mant, exp]      *)
(* with the value mant x 2^exp (ToBinary).                                 *)
(***************************************************************************)
EXTENDS Integers, Sequences, FiniteSets, TLC

----------------------------------------------------------------------------
(* include/parser.h: enumerations *)

PARSE_SUCCESS == 0
PARSE_EERR == 1
PARSE_ERANGE == 2
PARSE_EMIN == 3
PARSE_EMAX == 4
PARSE_EEND == 5
PARSE_EBASE == 6
PARSE_EFORM == 7

COMPLEX_NONE == 0
COMPLEX_REAL == 1
COMPLEX_IMAGINARY == 2

(* errno values of the C library *)
ENONE == 0
ERANGE == 34

----------------------------------------------------------------------------
(* Characters *)

NUL == "NUL"

(* The vertical tab and the grave accent, which a string of this module    *)
(* cannot hold, are named as the terminator is                             *)
VT == "VT"
GRAVE == "GRAVE"

IMAGINARY_UNIT == "i"

Lower == <<"a","b","c","d","e","f","g","h","i","j","k","l","m",
           "n","o","p","q","r","s","t","u","v","w","x","y","z">>
Upper == <<"A","B","C","D","E","F","G","H","I","J","K","L","M",
           "N","O","P","Q","R","S","T","U","V","W","X","Y","Z">>

(* The upper-case letter of each lower-case one *)
UpperOf == [c \in {Lower[k] : k \in 1..26} |-> Upper[CHOOSE k \in 1..26 : Lower[k] = c]]

toupper(c) == IF c \in DOMAIN UpperOf THEN UpperOf[c] ELSE c

(* isspace in the C locale: space, \t, \n, \v, \f, \r *)
isspace(c) == c \in {" ", "\t", "\n", VT, "\f", "\r"}

Digits == <<"0","1","2","3","4","5","6","7","8","9">>

(* The value of each decimal digit *)
DigitOf == [c \in {Digits[k] : k \in 1..10} |-> (CHOOSE k \in 1..10 : Digits[k] = c) - 1]

isdigit(c) == c \in DOMAIN DigitOf

DigitVal(c) == DigitOf[c]

isalpha(c) == c \in DOMAIN UpperOf \/ c \in {Upper[k] : k \in 1..26}

isalnum(c) == isalpha(c) \/ isdigit(c)

isxdigit(c) == isdigit(c) \/ \E k \in 1..6 : Upper[k] = toupper(c)

(* The value of a hexadecimal digit *)
HexVal(c) ==
    IF isdigit(c) THEN DigitVal(c)
    ELSE 9 + (CHOOSE k \in 1..6 : Upper[k] = toupper(c))

(* The character a pointer designates; the terminator at the end of text *)
At(s, p) == IF p \in 1..Len(s) THEN s[p] ELSE NUL

\* The loop that advances the cursor while isspace() holds of its character
RECURSIVE SkipSpace(_, _)
SkipSpace(s, p) == IF isspace(At(s, p)) THEN SkipSpace(s, p + 1) ELSE p

----------------------------------------------------------------------------
(* Unsigned integers of 64 bits (unsigned long, uintmax_t and size_t of    *)
(* the LP64 build).  A value is the sequence of its decimal digits, most   *)
(* significant first and without leading zeros; zero is the empty          *)
(* sequence.                                                               *)

RECURSIVE BigNorm(_)
BigNorm(a) == IF a # <<>> /\ Head(a) = 0 THEN BigNorm(Tail(a)) ELSE a

RECURSIVE NatToBig(_)
NatToBig(n) == IF n = 0 THEN <<>> ELSE Append(NatToBig(n \div 10), n % 10)

(* a * b + c for small naturals b and c *)
RECURSIVE BigMulAdd(_, _, _)
BigMulAdd(a, b, c) ==
    IF a = <<>> THEN NatToBig(c)
    ELSE Append(BigMulAdd(SubSeq(a, 1, Len(a) - 1), b, (a[Len(a)] * b + c) \div 10),
                (a[Len(a)] * b + c) % 10)

RECURSIVE Zeros(_)
Zeros(n) == IF n <= 0 THEN <<>> ELSE <<0>> \o Zeros(n - 1)

RECURSIVE LexLt(_, _)
LexLt(a, b) ==
    IF a = <<>> THEN FALSE
    ELSE IF Head(a) # Head(b) THEN Head(a) < Head(b)
    ELSE LexLt(Tail(a), Tail(b))

BigLt(a, b) == Len(a) < Len(b) \/ (Len(a) = Len(b) /\ LexLt(a, b))
BigGt(a, b) == BigLt(b, a)

(* a - b - borrow digit by digit, for a >= b, the digits of b right-aligned *)
RECURSIVE BigSubBorrow(_, _, _)
BigSubBorrow(a, b, borrow) ==
    IF a = <<>> THEN <<>>
    ELSE Append(BigSubBorrow(SubSeq(a, 1, Len(a) - 1),
                             IF b = <<>> THEN <<>> ELSE SubSeq(b, 1, Len(b) - 1),
                             IF a[Len(a)] - borrow - (IF b = <<>> THEN 0 ELSE b[Len(b)]) < 0
                             THEN 1 ELSE 0),
                (a[Len(a)] - borrow - (IF b = <<>> THEN 0 ELSE b[Len(b)]) + 10) % 10)

BigSub(a, b) == BigNorm(BigSubBorrow(a, b, 0))

ULONG_MAX == <<1,8,4,4,6,7,4,4,0,7,3,7,0,9,5,5,1,6,1,5>>
UINTMAX_MAX == ULONG_MAX
SIZE_MAX == ULONG_MAX

(* The unsigned negation of v in a type whose largest value is tmax *)
BigNeg(v, tmax) == IF v = <<>> THEN <<>> ELSE BigSub(BigMulAdd(tmax, 1, 1), v)

(* 2^64, one more than the largest value of the type *)
TwoPow64Digits == BigMulAdd(ULONG_MAX, 1, 1)

----------------------------------------------------------------------------
(* Doubles *)

RECURSIVE Norm(_, _)
Norm(m, e) ==
    IF m = 0 THEN [k |-> 0, m |-> 0, e |-> 0]
    ELSE IF m % 10 = 0 THEN Norm(m \div 10, e + 1)
    ELSE [k |-> 0, m |-> m, e |-> e]

Fin(n) == Norm(n, 0)
Zero == Fin(0)
NaN == [k |-> 2, m |-> 0, e |-> 0]
PosInf == [k |-> 1, m |-> 0, e |-> 0]
NegInf == [k |-> -1, m |-> 0, e |-> 0]

(* A double is a record: k = 0 is the finite decimal m x 10^e, k = 1 and   *)
(* k = -1 are the infinities, k = 2 is NaN, and k = 3 is a finite double   *)
(* whose decimal expansion goes on after the digits of m: its magnitude    *)
(* lies strictly between |m| x 10^e and (|m| + 1) x 10^e.                  *)

(* The double 2^64 = 18446744073709551616 *)
TwoPow64 == [k |-> 3, m |-> 1844674407, e |-> 10]

IsNaN(a) == a.k = 2
IsFinite(a) == a.k \in {0, 3}
IsExact(a) == a.k = 0

(* float.h: DBL_MAX is 1.7976931348623157e308 and DBL_MIN is               *)
(* 2.2250738585072014e-308.  m keeps the ten leading digits where they are *)
(* below 2^31 and nine where they are not; ten digits that begin as a      *)
(* nine-digit m does are not below 2^31 either, so a decimal whose digits  *)
(* fit compares with each limit as it does in the build.                   *)
(* DBL_TRUE_MIN is the least subnormal, 4.9406564584124654e-324;           *)
(* DBL_HALF_DENORM is half of it, 2.4703282292062327e-324, and             *)
(* DBL_THREE_HALVES_DENORM one and a half times it,                        *)
(* 7.4109846876186982e-324.                                                *)
DBL_MAX == [k |-> 3, m |-> 1797693134, e |-> 299]
DBL_MIN == [k |-> 3, m |-> 222507385, e |-> -316]
DBL_TRUE_MIN == [k |-> 3, m |-> 494065645, e |-> -332]
DBL_HALF_DENORM == [k |-> 3, m |-> 247032822, e |-> -332]
DBL_THREE_HALVES_DENORM == [k |-> 3, m |-> 741098468, e |-> -332]

RECURSIVE Pow10(_)
Pow10(n) == IF n <= 0 THEN 1 ELSE 10 * Pow10(n - 1)

RECURSIVE NumDigits(_)
NumDigits(m) == IF m < 10 THEN 1 ELSE 1 + NumDigits(m \div 10)

Abs(n) == IF n < 0 THEN -n ELSE n

(* a < b for finite positive a, b of the same order of magnitude, lo being *)
(* the lesser exponent: the digits are compared, as integers when both     *)
(* have at most nine and one by one otherwise; with the same digits, the   *)
(* exact decimal is below the double that goes on after them               *)
PosLtAligned(a, b, lo) ==
    IF NumDigits(a.m) <= 9 /\ NumDigits(b.m) <= 9
    THEN \/ a.m * Pow10(a.e - lo) < b.m * Pow10(b.e - lo)
         \/ a.m * Pow10(a.e - lo) = b.m * Pow10(b.e - lo) /\ a.k = 0 /\ b.k = 3
    ELSE \/ LexLt(NatToBig(a.m) \o Zeros(a.e - lo), NatToBig(b.m) \o Zeros(b.e - lo))
         \/ /\ NatToBig(a.m) \o Zeros(a.e - lo) = NatToBig(b.m) \o Zeros(b.e - lo)
            /\ a.k = 0 /\ b.k = 3

(* a < b for finite positive a, b *)
PosLt(a, b) ==
    IF NumDigits(a.m) + a.e # NumDigits(b.m) + b.e
    THEN NumDigits(a.m) + a.e < NumDigits(b.m) + b.e
    ELSE PosLtAligned(a, b, IF a.e < b.e THEN a.e ELSE b.e)

FinLt(a, b) ==
    IF a.m < 0
    THEN IF b.m >= 0 THEN TRUE
         ELSE PosLt([b EXCEPT !.m = -b.m], [a EXCEPT !.m = -a.m])
    ELSE IF a.m = 0 THEN b.m > 0
    ELSE IF b.m <= 0 THEN FALSE
    ELSE PosLt(a, b)

(* The C operator a < b on doubles: false when either operand is NaN *)
Lt(a, b) ==
    IF IsNaN(a) \/ IsNaN(b) THEN FALSE
    ELSE IF a.k = 1 \/ b.k = -1 THEN FALSE
    ELSE IF a.k = -1 \/ b.k = 1 THEN TRUE
    ELSE FinLt(a, b)

Gt(a, b) == Lt(b, a)

(* The C operator a == b on doubles *)
Eq(a, b) == ~IsNaN(a) /\ ~IsNaN(b) /\ a = b

\* x times sign, for sign in {1, -1}
MulSign(x, sign) ==
    IF sign = 1 THEN x
    ELSE IF IsNaN(x) THEN NaN
    ELSE IF x.k \in {1, -1} THEN [x EXCEPT !.k = -x.k]
    ELSE [x EXCEPT !.m = -x.m]

\* a + c x 0.0: the real lane of the C expression "a + c x I", where I is the
\* complex constant 0 + 1i and "c x I" is (c x 0.0) + (c x 1.0)i
PlusZeroTimes(a, c) == IF IsFinite(c) /\ ~IsNaN(a) THEN a ELSE NaN

\* The C expression "re + im x I"
Cx(re, im) == [re |-> PlusZeroTimes(re, im), im |-> im]

creal(z) == z.re
cimag(z) == z.im

CMPLX_MIN == [re |-> MulSign(DBL_MAX, -1), im |-> MulSign(DBL_MAX, -1)]
CMPLX_MAX == [re |-> DBL_MAX, im |-> DBL_MAX]

----------------------------------------------------------------------------
(* The C library's strtod (glibc, the C locale), for the texts whose value *)
(* is a decimal that m holds, mantissas and exponents being below 2^31     *)

INFINITY_WORD == <<"I","N","F","I","N","I","T","Y">>
INF_WORD == <<"I","N","F">>
NAN_WORD == <<"N","A","N">>

MatchCI(s, p, word) == \A k \in 1..Len(word) : toupper(At(s, p + k - 1)) = word[k]

RECURSIVE ScanDigits(_, _)
ScanDigits(s, p) == IF isdigit(At(s, p)) THEN ScanDigits(s, p + 1) ELSE p

(* The number written by the digits at positions p..q-1 *)
RECURSIVE DigitsVal(_, _, _)
DigitsVal(s, p, q) ==
    IF q <= p THEN 0 ELSE 10 * DigitsVal(s, p, q - 1) + DigitVal(s[q - 1])

(* A decimal v below DBL_MIN is rounded to a subnormal: to zero up to half *)
(* the least one, to the least one up to one and a half times it; the      *)
(* subnormals above stand as the decimal itself                            *)
Subnormal(v) ==
    IF Lt(v, DBL_HALF_DENORM) THEN Zero
    ELSE IF Lt(v, DBL_THREE_HALVES_DENORM) THEN DBL_TRUE_MIN
    ELSE v

(* A finite decimal v ending at end: overflow gives HUGE_VAL, underflow a   *)
(* subnormal or zero, both with errno set to ERANGE                        *)
strtodResult(sign, end, v) ==
    IF Gt(v, DBL_MAX)
    THEN [x |-> MulSign(PosInf, sign), endptr |-> end, erange |-> TRUE]
    ELSE IF v.m # 0 /\ Lt(v, DBL_MIN)
    THEN [x |-> MulSign(Subnormal(v), sign), endptr |-> end, erange |-> TRUE]
    ELSE [x |-> MulSign(v, sign), endptr |-> end, erange |-> FALSE]

(* The exponent part after a mantissa mant x 10^-nfrac that ends at mend;  *)
(* e2..e3-1 are the exponent's digits, none when e3 = e2                   *)
strtodExponent(s, sign, mend, mant, nfrac, e2, e3) ==
    IF At(s, mend) \in {"e", "E"} /\ e3 > e2
    THEN strtodResult(sign, e3,
             Norm(mant, (IF At(s, mend + 1) = "-" THEN -1 ELSE 1) * DigitsVal(s, e2, e3)
                        - nfrac))
    ELSE strtodResult(sign, mend, Norm(mant, -nfrac))

(* The mantissa: digits p1..i1-1, then a point and digits up to f1-1 *)
strtodMantissa(s, nptr, sign, p1, i1, f1, nfrac) ==
    IF (i1 - p1) + nfrac = 0
    THEN [x |-> Zero, endptr |-> nptr, erange |-> FALSE]
    ELSE strtodExponent(s, sign, f1,
             DigitsVal(s, p1, i1) * Pow10(nfrac) + DigitsVal(s, i1 + 1, i1 + 1 + nfrac),
             nfrac,
             IF At(s, f1 + 1) \in {"+", "-"} THEN f1 + 2 ELSE f1 + 1,
             ScanDigits(s, IF At(s, f1 + 1) \in {"+", "-"} THEN f1 + 2 ELSE f1 + 1))

strtodPoint(s, nptr, sign, p1, i1, f1) ==
    strtodMantissa(s, nptr, sign, p1, i1, f1,
                   IF At(s, i1) = "." THEN f1 - (i1 + 1) ELSE 0)

strtodDigits(s, nptr, sign, p1, i1) ==
    strtodPoint(s, nptr, sign, p1, i1,
                IF At(s, i1) = "." THEN ScanDigits(s, i1 + 1) ELSE i1)

(* Hexadecimal floats: "0x" or "0X", hexadecimal digits with an optional   *)
(* point among them, and an optional binary exponent "p" or "P" with       *)
(* decimal digits.  The prefix counts only when a hexadecimal digit        *)
(* follows it, at once or after a point.                                   *)
IsHexFloat(s, p1) ==
    /\ At(s, p1) = "0"
    /\ toupper(At(s, p1 + 1)) = "X"
    /\ \/ isxdigit(At(s, p1 + 2))
       \/ At(s, p1 + 2) = "." /\ isxdigit(At(s, p1 + 3))

RECURSIVE ScanHex(_, _)
ScanHex(s, p) == IF isxdigit(At(s, p)) THEN ScanHex(s, p + 1) ELSE p

(* The number written by the hexadecimal digits at positions p..q-1 *)
RECURSIVE HexDigitsVal(_, _, _)
HexDigitsVal(s, p, q) ==
    IF q <= p THEN 0 ELSE 16 * HexDigitsVal(s, p, q - 1) + HexVal(s[q - 1])

RECURSIVE Pow2(_)
Pow2(n) == IF n <= 0 THEN 1 ELSE 2 * Pow2(n - 1)

RECURSIVE Pow5(_)
Pow5(n) == IF n <= 0 THEN 1 ELSE 5 * Pow5(n - 1)

(* The number of binary digits of n > 0 *)
RECURSIVE BitLen(_)
BitLen(n) == IF n < 2 THEN 1 ELSE 1 + BitLen(n \div 2)

(* mant x 2^e for odd mant: 2^-n is 5^n x 10^-n, and the powers of two    *)
(* that the limits are have their records                                  *)
HexOdd(mant, e) ==
    IF mant = 1 /\ e = 64 THEN TwoPow64
    ELSE IF mant = 1 /\ e = -1022 THEN DBL_MIN
    ELSE IF mant = 1 /\ e = -1074 THEN DBL_TRUE_MIN
    ELSE IF e >= 0 THEN Norm(mant * Pow2(e), 0)
    ELSE Norm(mant * Pow5(-e), e)

(* mant x 2^e for mant > 0 *)
RECURSIVE HexValue(_, _)
HexValue(mant, e) ==
    IF mant % 2 = 0 THEN HexValue(mant \div 2, e + 1) ELSE HexOdd(mant, e)

(* mant x 2^-1074 / 2^shift rounded to a whole multiple r of the least     *)
(* subnormal, halves to the even neighbour; q2 counts the halves and rlow  *)
(* is what is left below them.  errno is set to ERANGE when the result is  *)
(* not exact.                                                              *)
strtodHexRounded(sign, end, q2, rlow, r) ==
    [x |-> IF r = 0 THEN Zero ELSE MulSign(HexValue(r, -1074), sign),
     endptr |-> end, erange |-> (q2 % 2 = 1 \/ rlow > 0)]

strtodHexHalves(sign, end, q2, rlow) ==
    strtodHexRounded(sign, end, q2, rlow,
        (q2 \div 2)
        + (IF q2 % 2 = 1 /\ (rlow > 0 \/ (q2 \div 2) % 2 = 1) THEN 1 ELSE 0))

(* A mantissa below 2^31 shifted by more than 31 is less than a half *)
strtodHexSubnormal(sign, end, mant, shift) ==
    IF shift > 31
    THEN [x |-> Zero, endptr |-> end, erange |-> TRUE]
    ELSE strtodHexHalves(sign, end, mant \div Pow2(shift - 1), mant % Pow2(shift - 1))

(* mant x 2^e ending at end: 2^1024 and above overflows to HUGE_VAL with   *)
(* errno set to ERANGE; below 2^-1074 the value is rounded; a value        *)
(* between is exact                                                        *)
strtodHexResult(sign, end, mant, e) ==
    IF mant = 0
    THEN [x |-> Zero, endptr |-> end, erange |-> FALSE]
    ELSE IF BitLen(mant) + e > 1024
    THEN [x |-> MulSign(PosInf, sign), endptr |-> end, erange |-> TRUE]
    ELSE IF e < -1074
    THEN strtodHexSubnormal(sign, end, mant, -1074 - e)
    ELSE [x |-> MulSign(HexValue(mant, e), sign), endptr |-> end, erange |-> FALSE]

(* The binary exponent after a mantissa mant x 16^-nfrac that ends at      *)
(* mend; e2..e3-1 are the exponent's digits, none when e3 = e2             *)
strtodHexExponent(s, sign, mend, mant, nfrac, e2, e3) ==
    IF toupper(At(s, mend)) = "P" /\ e3 > e2
    THEN strtodHexResult(sign, e3, mant,
             (IF At(s, mend + 1) = "-" THEN -1 ELSE 1) * DigitsVal(s, e2, e3)
             - 4 * nfrac)
    ELSE strtodHexResult(sign, mend, mant, -4 * nfrac)

(* The mantissa: digits h1..i1-1, then a point and digits up to f1-1 *)
strtodHexPoint(s, sign, h1, i1, f1) ==
    strtodHexExponent(s, sign, f1,
        HexDigitsVal(s, h1, i1) * Pow2(4 * (IF At(s, i1) = "." THEN f1 - (i1 + 1) ELSE 0))
        + (IF At(s, i1) = "." THEN HexDigitsVal(s, i1 + 1, f1) ELSE 0),
        IF At(s, i1) = "." THEN f1 - (i1 + 1) ELSE 0,
        IF At(s, f1 + 1) \in {"+", "-"} THEN f1 + 2 ELSE f1 + 1,
        ScanDigits(s, IF At(s, f1 + 1) \in {"+", "-"} THEN f1 + 2 ELSE f1 + 1))

(* h1 is the position after the prefix *)
strtodHex(s, sign, h1, i1) ==
    strtodHexPoint(s, sign, h1, i1,
                   IF At(s, i1) = "." THEN ScanHex(s, i1 + 1) ELSE i1)

(* After "nan": a parenthesised run of letters, digits and underscores is  *)
(* part of the number; anything else in the parentheses, or no closing     *)
(* one, leaves the end after the word                                      *)
RECURSIVE ScanPayload(_, _)
ScanPayload(s, p) ==
    IF isalnum(At(s, p)) \/ At(s, p) = "_" THEN ScanPayload(s, p + 1) ELSE p

NanEnd(s, p) ==
    IF At(s, p) = "(" /\ At(s, ScanPayload(s, p + 1)) = ")"
    THEN ScanPayload(s, p + 1) + 1
    ELSE p

(* The digits p..q-1 as an integer of any size *)
RECURSIVE WideVal(_, _, _)
WideVal(s, p, q) ==
    IF q <= p THEN <<>> ELSE BigMulAdd(WideVal(s, p, q - 1), 10, DigitVal(s[q - 1]))

(* A whole number of twenty digits that the conversion rounds to 2^64: the *)
(* neighbouring doubles are 2^64 - 2048 and 2^64 + 4096, and the halfway   *)
(* cases go to 2^64, whose mantissa is even                                *)
RoundsToTwoPow64(s, p, q) ==
    /\ q - p = Len(TwoPow64Digits)
    /\ At(s, q) # "."
    /\ ~(At(s, q) \in {"e", "E"}
          /\ (isdigit(At(s, q + 1))
               \/ (At(s, q + 1) \in {"+", "-"} /\ isdigit(At(s, q + 2)))))
    /\ ~BigLt(WideVal(s, p, q), BigSub(TwoPow64Digits, NatToBig(1024)))
    /\ ~BigGt(WideVal(s, p, q), BigMulAdd(TwoPow64Digits, 1, 2048))

(* After the sign: "infinity", "inf", "nan" in any case, a hexadecimal     *)
(* float, or a decimal number                                              *)
strtodSigned(s, nptr, sign, p1) ==
    IF MatchCI(s, p1, INFINITY_WORD)
    THEN [x |-> MulSign(PosInf, sign), endptr |-> p1 + 8, erange |-> FALSE]
    ELSE IF MatchCI(s, p1, INF_WORD)
    THEN [x |-> MulSign(PosInf, sign), endptr |-> p1 + 3, erange |-> FALSE]
    ELSE IF MatchCI(s, p1, NAN_WORD)
    THEN [x |-> NaN, endptr |-> NanEnd(s, p1 + 3), erange |-> FALSE]
    ELSE IF IsHexFloat(s, p1)
    THEN strtodHex(s, sign, p1 + 2, ScanHex(s, p1 + 2))
    ELSE IF RoundsToTwoPow64(s, p1, ScanDigits(s, p1))
    THEN [x |-> MulSign(TwoPow64, sign), endptr |-> ScanDigits(s, p1), erange |-> FALSE]
    ELSE strtodDigits(s, nptr, sign, p1, ScanDigits(s, p1))

strtodSpace(s, nptr, p0) ==
    strtodSigned(s, nptr,
                 IF At(s, p0) = "-" THEN -1 ELSE 1,
                 IF At(s, p0) \in {"+", "-"} THEN p0 + 1 ELSE p0)

(* x is the value, endptr the end of the converted text (nptr when there   *)
(* is no conversion), erange whether errno is set to ERANGE                *)
strtod(s, nptr) == strtodSpace(s, nptr, SkipSpace(s, nptr))

----------------------------------------------------------------------------
(* src/src/parser.c *)

(* Lines 115-128, r being what strtod returned at line 113 *)
DoubleOutcome(s, nptr, min, max, r) ==
    [x |-> r.x, endptr |-> r.endptr, errno |-> IF r.erange THEN ERANGE ELSE ENONE,
     err |-> IF r.endptr = nptr THEN PARSE_EERR
             ELSE IF r.erange THEN PARSE_ERANGE
             ELSE IF Lt(r.x, min) THEN PARSE_EMIN
             ELSE IF Gt(r.x, max) THEN PARSE_EMAX
             ELSE IF At(s, r.endptr) = NUL THEN PARSE_SUCCESS
             ELSE PARSE_EEND]

stringToDouble(s, nptr, min, max) == DoubleOutcome(s, nptr, min, max, strtod(s, nptr))

ParseSignAt(s, p) ==
    IF At(s, p) = "+" THEN [ret |-> 1, endptr |-> p + 1]
    ELSE IF At(s, p) = "-" THEN [ret |-> -1, endptr |-> p + 1]
    ELSE [ret |-> 0, endptr |-> p]

parseSign(s, c) == ParseSignAt(s, SkipSpace(s, c))

(* A recognizer that reports no kind when the unit is absent *)
ParseImaginaryUnitAt_None(s, p) ==
    IF toupper(At(s, p)) # toupper(IMAGINARY_UNIT)
    THEN [ret |-> COMPLEX_NONE, endptr |-> p]
    ELSE [ret |-> COMPLEX_IMAGINARY, endptr |-> p + 1]

(* A recognizer that leaves the cursor on the unit (no line 426) *)
ParseImaginaryUnitAt_NoAdvance(s, p) ==
    IF toupper(At(s, p)) # toupper(IMAGINARY_UNIT)
    THEN [ret |-> COMPLEX_REAL, endptr |-> p]
    ELSE [ret |-> COMPLEX_IMAGINARY, endptr |-> p]

(* Lines 423-428, p being the cursor after the whitespace *)
ParseImaginaryUnitAt(s, p) ==
    IF toupper(At(s, p)) # toupper(IMAGINARY_UNIT)
    THEN [ret |-> COMPLEX_REAL, endptr |-> p]
    ELSE [ret |-> COMPLEX_IMAGINARY, endptr |-> p + 1]

(* A recognizer that looks at the character it is given (no line 420) *)
parseImaginaryUnit_NoSkip(s, c) == ParseImaginaryUnitAt(s, c)

(* Lines 418-421: whitespace is skipped, then the unit is looked for *)
parseImaginaryUnit(s, c) == ParseImaginaryUnitAt(s, SkipSpace(s, c))

(* Line 161: a missing sign counts as '+' *)
DefaultSign(ret) == IF ret = 0 THEN 1 ELSE ret

(* A part parser that lets a second sign through to the conversion *)
SecondSign_Ignored(ret) == FALSE

(* Line 168: a second sign token is a format error *)
SecondSign(ret) == ret # 0

(* Line 175: after a failed conversion the cursor must be at the unit *)
AtImaginaryUnit(c) == toupper(c) = toupper(IMAGINARY_UNIT)

(* A part parser that keeps the 0 of the failed conversion for a bare unit *)
UnitCoefficient_Zero == Zero

(* Line 179: the coefficient of a unit that has none *)
UnitCoefficient == Fin(1)

(* Line 181: the conversion outcomes the part parser returns as they are *)
ConversionFailed(parseError) ==
    parseError \notin {PARSE_EERR, PARSE_SUCCESS, PARSE_EEND}

(* Lines 195 and 201: the coefficient against one lane of min and max *)
OutOfLane(x, lo, hi) == Lt(x, lo) \/ Gt(x, hi)

(* The result of stringToComplexPart.  z and type are the caller's         *)
(* variables after the call, conv tells whether stringToDouble was called  *)
(* (errno is then the value it left in errno), x is the local coefficient  *)
(* when the call returns, wrote tells whether the accumulator was assigned *)
PartResult(err, z, endptr, type, conv, x, wrote, errno) ==
    [err |-> err, z |-> z, endptr |-> endptr, type |-> type, conv |-> conv,
     x |-> x, wrote |-> wrote, errno |-> errno]

(* A part parser that checks each coefficient against the other lane *)
PartStore_OtherLane(s, min, max, z, x, d, u) ==
    IF u.ret = COMPLEX_REAL
    THEN IF OutOfLane(x, cimag(min), cimag(max))
         THEN PartResult(PARSE_ERANGE, z, u.endptr, u.ret, TRUE, x, FALSE, d.errno)
         ELSE PartResult(IF At(s, u.endptr) = NUL THEN PARSE_SUCCESS ELSE PARSE_EEND,
                         Cx(x, cimag(z)), u.endptr, u.ret, TRUE, x, TRUE, d.errno)
    ELSE IF u.ret = COMPLEX_IMAGINARY
    THEN IF OutOfLane(x, creal(min), creal(max))
         THEN PartResult(PARSE_ERANGE, z, u.endptr, u.ret, TRUE, x, FALSE, d.errno)
         ELSE PartResult(IF At(s, u.endptr) = NUL THEN PARSE_SUCCESS ELSE PARSE_EEND,
                         Cx(creal(z), x), u.endptr, u.ret, TRUE, x, TRUE, d.errno)
    ELSE PartResult(PARSE_EERR, z, u.endptr, u.ret, TRUE, x, FALSE, d.errno)

(* Lines 188-208, u being the result of parseImaginaryUnit *)
PartStore(s, min, max, z, x, d, u) ==
    IF u.ret = COMPLEX_REAL
    THEN IF OutOfLane(x, creal(min), creal(max))
         THEN PartResult(PARSE_ERANGE, z, u.endptr, u.ret, TRUE, x, FALSE, d.errno)
         ELSE PartResult(IF At(s, u.endptr) = NUL THEN PARSE_SUCCESS ELSE PARSE_EEND,
                         Cx(x, cimag(z)), u.endptr, u.ret, TRUE, x, TRUE, d.errno)
    ELSE IF u.ret = COMPLEX_IMAGINARY
    THEN IF OutOfLane(x, cimag(min), cimag(max))
         THEN PartResult(PARSE_ERANGE, z, u.endptr, u.ret, TRUE, x, FALSE, d.errno)
         ELSE PartResult(IF At(s, u.endptr) = NUL THEN PARSE_SUCCESS ELSE PARSE_EEND,
                         Cx(creal(z), x), u.endptr, u.ret, TRUE, x, TRUE, d.errno)
    ELSE PartResult(PARSE_EERR, z, u.endptr, u.ret, TRUE, x, FALSE, d.errno)

(* Lines 173-188, d being the result of stringToDouble *)
PartConvert(s, min, max, z, type, sign, d) ==
    IF d.err = PARSE_EERR /\ ~AtImaginaryUnit(At(s, d.endptr))
    THEN PartResult(PARSE_EFORM, z, d.endptr, type, TRUE, d.x, FALSE, d.errno)
    ELSE IF d.err # PARSE_EERR /\ ConversionFailed(d.err)
    THEN PartResult(d.err, z, d.endptr, type, TRUE, d.x, FALSE, d.errno)
    ELSE PartStore(s, min, max, z,
                   MulSign(IF d.err = PARSE_EERR THEN UnitCoefficient ELSE d.x, sign),
                   d, parseImaginaryUnit(s, d.endptr))

(* Lines 168-171, s2 being the result of the second parseSign *)
PartSecondSign(s, min, max, z, type, sign, s2) ==
    IF SecondSign(s2.ret)
    THEN PartResult(PARSE_EFORM, z, s2.endptr, type, FALSE, Zero, FALSE, ENONE)
    ELSE PartConvert(s, min, max, z, type, sign,
                     stringToDouble(s, s2.endptr, MulSign(DBL_MAX, -1), DBL_MAX))

(* Lines 159-168, s1 being the result of the first parseSign *)
PartSign(s, min, max, z, type, s1) ==
    PartSecondSign(s, min, max, z, type, DefaultSign(s1.ret), parseSign(s, s1.endptr))

(* z and type are the values the caller's variables hold before the call *)
stringToComplexPart(s, nptr, min, max, z, type) ==
    PartSign(s, min, max, z, type, parseSign(s, SkipSpace(s, nptr)))

(* The result of a part parse that was not made *)
NoPart == PartResult(PARSE_SUCCESS, [re |-> Zero, im |-> Zero], 0, COMPLEX_NONE,
                     FALSE, Zero, FALSE, ENONE)

(* Line 242: the result is zeroed, whatever the caller's variable held *)
ZeroResult(z) == Cx(Zero, Zero)

(* A parser that goes on to the operator after a first part that failed *)
FirstPartReturns_SuccessOnly(parseError) == parseError = PARSE_SUCCESS

(* Lines 247-250: the first part's outcomes that end the call *)
FirstPartReturns(parseError) == parseError # PARSE_EEND

(* Line 271: the second part's outcomes that roll back *)
SecondPartFailed(parseError) == parseError \notin {PARSE_SUCCESS, PARSE_EEND}

(* A parser without the check for two parts of one kind *)
SameKind_Never(firstType, secondType) == FALSE

(* Line 277 *)
SameKind(firstType, secondType) == firstType = secondType

(* A commit that forgets the operator *)
CommitSecondPart_NoOperator(z, operator, secondZPart, secondType) ==
    IF secondType = COMPLEX_REAL
    THEN [ok |-> TRUE, z |-> Cx(creal(secondZPart), cimag(z))]
    ELSE IF secondType = COMPLEX_IMAGINARY
    THEN [ok |-> TRUE, z |-> Cx(creal(z), cimag(secondZPart))]
    ELSE [ok |-> FALSE, z |-> z]

(* Lines 284-295: the second part goes to the lane of its kind, with the   *)
(* operator applied; ok is FALSE in the default branch                     *)
CommitSecondPart(z, operator, secondZPart, secondType) ==
    IF secondType = COMPLEX_REAL
    THEN [ok |-> TRUE, z |-> Cx(MulSign(creal(secondZPart), operator), cimag(z))]
    ELSE IF secondType = COMPLEX_IMAGINARY
    THEN [ok |-> TRUE, z |-> Cx(creal(z), MulSign(cimag(secondZPart), operator))]
    ELSE [ok |-> FALSE, z |-> z]

(* The result of stringToComplex.  first and second are the results of the *)
(* two part parses (NoPart when not made), ops tells whether the           *)
(* operator's parseSign was called and operator is its result, partEndptr  *)
(* is the checkpoint, 0 while it is not recorded                           *)
ComplexResult(err, z, endptr, partEndptr, first, ops, operator, second) ==
    [err |-> err, z |-> z, endptr |-> endptr, partEndptr |-> partEndptr,
     first |-> first, ops |-> ops, operator |-> operator, second |-> second]

(* A rollback that leaves the cursor after the operator *)
Rollback_NoReset(first, op, second) ==
    ComplexResult(PARSE_EEND, first.z, op.endptr, first.endptr, first, TRUE,
                  op.ret, second)

(* Lines 264-265, 273-274, 279-280, 293-294 *)
Rollback(first, op, second) ==
    ComplexResult(PARSE_EEND, first.z, first.endptr, first.endptr, first, TRUE,
                  op.ret, second)

(* Lines 284-297, commit being the result of the switch *)
ComplexCommit(s, first, op, second, commit) ==
    IF ~commit.ok THEN Rollback(first, op, second)
    ELSE ComplexResult(IF At(s, second.endptr) = NUL THEN PARSE_SUCCESS ELSE PARSE_EEND,
                       commit.z, second.endptr, first.endptr, first, TRUE, op.ret,
                       second)

(* A parser that returns the second part's error instead of rolling back *)
ComplexSecond_Propagate(s, first, op, second) ==
    IF SecondPartFailed(second.err)
    THEN ComplexResult(second.err, first.z, second.endptr, first.endptr, first, TRUE,
                       op.ret, second)
    ELSE IF SameKind(first.type, second.type) THEN Rollback(first, op, second)
    ELSE ComplexCommit(s, first, op, second,
                       CommitSecondPart(first.z, op.ret, second.z, second.type))

(* Lines 271-284, second being the result of the second part parse *)
ComplexSecond(s, first, op, second) ==
    IF SecondPartFailed(second.err) THEN Rollback(first, op, second)
    ELSE IF SameKind(first.type, second.type) THEN Rollback(first, op, second)
    ELSE ComplexCommit(s, first, op, second,
                       CommitSecondPart(first.z, op.ret, second.z, second.type))

(* Lines 262-269, op being the result of the operator's parseSign *)
ComplexOperator(s, min, max, secondZPart, first, op) ==
    IF op.ret = 0 THEN Rollback(first, op, NoPart)
    ELSE ComplexSecond(s, first, op,
             stringToComplexPart(s, op.endptr, min, max, secondZPart, COMPLEX_NONE))

(* Lines 247-260, first being the result of the first part parse *)
ComplexFirst(s, min, max, secondZPart, first) ==
    IF FirstPartReturns(first.err)
    THEN ComplexResult(first.err, first.z, first.endptr, 0, first, FALSE, 0, NoPart)
    ELSE ComplexOperator(s, min, max, secondZPart, first, parseSign(s, first.endptr))

(* z is the value of the caller's variable before the call, secondZPart    *)
(* the value the uninitialised local of that name holds                    *)
stringToComplex(s, nptr, min, max, z, secondZPart) ==
    ComplexFirst(s, min, max, secondZPart,
        stringToComplexPart(s, SkipSpace(s, nptr), min, max, ZeroResult(z),
                            COMPLEX_NONE))

----------------------------------------------------------------------------
(* strtoul() and strtoumax() of the C library *)

EINVAL == 22

(* The value of a character as a digit: 0-9, then letters of either case   *)
(* from 10; 36 or more for any other character                            *)
DigitValue(c) ==
    IF isdigit(c) THEN DigitVal(c)
    ELSE IF \E k \in 1..Len(Upper) : Upper[k] = toupper(c)
    THEN (CHOOSE k \in 1..Len(Upper) : Upper[k] = toupper(c)) + 9
    ELSE Len(Upper) + 10

(* A scan that takes every digit and letter, whatever the base *)
RECURSIVE ScanBase_AnyBase(_, _, _)
ScanBase_AnyBase(s, p, base) ==
    IF At(s, p) # NUL /\ DigitValue(At(s, p)) < Len(Upper) + 10
    THEN ScanBase_AnyBase(s, p + 1, base) ELSE p

(* The end of the longest run of digits of the base from p *)
RECURSIVE ScanBase(_, _, _)
ScanBase(s, p, base) ==
    IF At(s, p) # NUL /\ DigitValue(At(s, p)) < base THEN ScanBase(s, p + 1, base) ELSE p

(* The value of the digits s[p..q-1] in the base, or a value above tmax    *)
(* as soon as the accumulation passes tmax                                 *)
RECURSIVE AccumulateBase(_, _, _, _, _, _)
AccumulateBase(s, p, q, base, tmax, acc) ==
    IF p >= q \/ BigGt(acc, tmax) THEN acc
    ELSE AccumulateBase(s, p + 1, q, base, tmax,
                        BigMulAdd(acc, base, DigitValue(At(s, p))))

(* The result of the conversion: the value, the end pointer and errno *)
strtoulResult(x, endptr, errno) == [x |-> x, endptr |-> endptr, errno |-> errno]

(* save is where the digits start, q where they end and v their value *)
strtoulValue(s, nptr, negative, save, q, v, tmax) ==
    IF q = save
    THEN strtoulResult(<<>>,
                       IF save - nptr >= 2 /\ toupper(At(s, save - 1)) = "X"
                          /\ At(s, save - 2) = "0"
                       THEN save - 1 ELSE nptr,
                       ENONE)
    ELSE IF BigGt(v, tmax) THEN strtoulResult(tmax, q, ERANGE)
    ELSE strtoulResult(IF negative THEN BigNeg(v, tmax) ELSE v, q, ENONE)

strtoulDigits(s, nptr, negative, save, base, tmax) ==
    strtoulValue(s, nptr, negative, save, ScanBase(s, save, base),
                 AccumulateBase(s, save, ScanBase(s, save, base), base, tmax, <<>>),
                 tmax)

(* p is the position after the optional sign *)
strtoulPrefix(s, nptr, negative, p, base, tmax) ==
    IF At(s, p) = "0" /\ base \in {0, 16} /\ toupper(At(s, p + 1)) = "X"
    THEN strtoulDigits(s, nptr, negative, p + 2, 16, tmax)
    ELSE IF base = 0
    THEN strtoulDigits(s, nptr, negative, p, IF At(s, p) = "0" THEN 8 ELSE 10, tmax)
    ELSE strtoulDigits(s, nptr, negative, p, base, tmax)

strtoulSign(s, nptr, p0, base, tmax) ==
    IF At(s, p0) = "-" THEN strtoulPrefix(s, nptr, TRUE, p0 + 1, base, tmax)
    ELSE IF At(s, p0) = "+" THEN strtoulPrefix(s, nptr, FALSE, p0 + 1, base, tmax)
    ELSE strtoulPrefix(s, nptr, FALSE, p0, base, tmax)

strtoul(s, nptr, base) == strtoulSign(s, nptr, SkipSpace(s, nptr), base, ULONG_MAX)
strtoumax(s, nptr, base) == strtoulSign(s, nptr, SkipSpace(s, nptr), base, UINTMAX_MAX)

----------------------------------------------------------------------------
(* src/src/parser.c: stringToULong and stringToUIntMax *)

(* A base check that takes the automatic base 0 for an invalid radix *)
BadBase_ZeroRejected(base) == base < 2 \/ base > 36

(* Lines 38 and 77 *)
BadBase(base) == (base < 2 /\ base # 0) \/ base > 36

(* The result of an integer parser: x is the caller's variable after the   *)
(* call, wrote tells whether it was assigned, conv whether the conversion  *)
(* was called, sign is the local of that name (NUL while unassigned)       *)
IntResult(err, x, endptr, wrote, conv, sign) ==
    [err |-> err, x |-> x, endptr |-> endptr, wrote |-> wrote, conv |-> conv,
     sign |-> sign]

(* An outcome that looks at the trailing text before the bounds *)
UnsignedOutcome_TrailingFirst(s, nptr, sign, min, max, r) ==
    IntResult(IF r.endptr = nptr \/ r.errno = EINVAL THEN PARSE_EERR
              ELSE IF r.errno = ERANGE THEN PARSE_ERANGE
              ELSE IF At(s, r.endptr) # NUL THEN PARSE_EEND
              ELSE IF BigLt(r.x, min) THEN PARSE_EMIN
              ELSE IF BigGt(r.x, max) THEN PARSE_EMAX
              ELSE IF sign = "-" /\ r.x # <<>> THEN PARSE_EMIN
              ELSE PARSE_SUCCESS,
              r.x, r.endptr, TRUE, TRUE, sign)

(* Lines 52-66 and 91-105, r being the result of the conversion from nptr *)
UnsignedOutcome(s, nptr, sign, min, max, r) ==
    IntResult(IF r.endptr = nptr \/ r.errno = EINVAL THEN PARSE_EERR
              ELSE IF r.errno = ERANGE THEN PARSE_ERANGE
              ELSE IF BigLt(r.x, min) THEN PARSE_EMIN
              ELSE IF BigGt(r.x, max) THEN PARSE_EMAX
              ELSE IF sign = "-" /\ r.x # <<>> THEN PARSE_EMIN
              ELSE IF At(s, r.endptr) = NUL THEN PARSE_SUCCESS
              ELSE PARSE_EEND,
              r.x, r.endptr, TRUE, TRUE, sign)

(* Lines 42-50, p being the cursor after the leading whitespace *)
ULongConvert(s, p, min, max, base) ==
    UnsignedOutcome(s, p, At(s, p), min, max, strtoul(s, p, base))

(* x is the value of the caller's variable before the call *)
stringToULong(s, nptr, min, max, base, x) ==
    IF BadBase(base) THEN IntResult(PARSE_EBASE, x, nptr, FALSE, FALSE, NUL)
    ELSE ULongConvert(s, SkipSpace(s, nptr), min, max, base)

(* Lines 81-89 *)
UIntMaxConvert(s, p, min, max, base) ==
    UnsignedOutcome(s, p, At(s, p), min, max, strtoumax(s, p, base))

stringToUIntMax(s, nptr, min, max, base, x) ==
    IF BadBase(base) THEN IntResult(PARSE_EBASE, x, nptr, FALSE, FALSE, NUL)
    ELSE UIntMaxConvert(s, SkipSpace(s, nptr), min, max, base)

----------------------------------------------------------------------------
(* src/src/parser.c: stringToMemory and parseMemoryUnit *)

(* include/parser.h: enum PercyMemoryMagnitude *)
MEM_B == 0
MEM_KB == 3
MEM_MB == 6
MEM_GB == 9
MEM_TB == 12
MEM_PB == 15
MEM_EB == 18
MEM_ZB == 21
MEM_YB == 24

(* The magnitudes above MEM_B in the order of the enumeration *)
MemMag == <<MEM_KB, MEM_MB, MEM_GB, MEM_TB, MEM_PB, MEM_EB, MEM_ZB, MEM_YB>>

BYTE_UNIT == "B"
BYTE_PREFIXES == <<"k", "M", "G", "T", "P", "E", "Z", "Y">>

(* Lines 368-379: the first prefix that matches c, 0 when none does *)
PrefixIndex(c) ==
    IF \E i \in 1..Len(BYTE_PREFIXES) : toupper(c) = toupper(BYTE_PREFIXES[i])
    THEN CHOOSE i \in 1..Len(BYTE_PREFIXES) :
             /\ toupper(c) = toupper(BYTE_PREFIXES[i])
             /\ \A j \in 1..(i - 1) : toupper(c) # toupper(BYTE_PREFIXES[j])
    ELSE 0

(* Binary units: ten bits a prefix *)
PrefixMagnitude_Binary(i) == i * 10

(* Line 372: the magnitude of the prefix of (0-based) index i - 1 *)
PrefixMagnitude(i) == i * 3

(* A unit recognizer that steps over the character without comparing it *)
ParseByteUnitAt_Unchecked(s, p, magnitude) == [ret |-> magnitude, endptr |-> p + 1]

(* Lines 382-388, p being the cursor after the optional prefix *)
ParseByteUnitAt(s, p, magnitude) ==
    IF toupper(At(s, p)) # toupper(BYTE_UNIT)
    THEN [ret |-> -1, endptr |-> p]
    ELSE [ret |-> magnitude, endptr |-> p + 1]

(* Lines 368-380, p being the cursor after the whitespace *)
ParseMemoryUnitAt(s, p) ==
    IF PrefixIndex(At(s, p)) # 0
    THEN ParseByteUnitAt(s, p + 1, PrefixMagnitude(PrefixIndex(At(s, p))))
    ELSE ParseByteUnitAt(s, p, 0)

parseMemoryUnit(s, str) == ParseMemoryUnitAt(s, SkipSpace(s, str))

(* IEEE 754 binary64, the type double of the build.  A finite double is    *)
(* mant x 2^exp, negated when neg: mant has 53 bits for a normal number    *)
(* and fewer, with exp = -1074, for a subnormal one; zero is mant = <<>>   *)
(* with exp = 0; cls tells a number from an infinity and a NaN.  mant is a *)
(* natural number of any size, written as a sequence of limbs below 2^15,  *)
(* the least significant first, <<>> being zero.                           *)

Radix == Pow2(15)

RECURSIVE LNorm(_)
LNorm(a) == IF a # <<>> /\ a[Len(a)] = 0 THEN LNorm(SubSeq(a, 1, Len(a) - 1)) ELSE a

RECURSIVE LFromNat(_)
LFromNat(n) == IF n = 0 THEN <<>> ELSE <<n % Radix>> \o LFromNat(n \div Radix)

(* a x k + c for k and c below the radix *)
RECURSIVE LMulAdd(_, _, _)
LMulAdd(a, k, c) ==
    IF a = <<>> THEN LFromNat(c)
    ELSE <<(a[1] * k + c) % Radix>> \o LMulAdd(Tail(a), k, (a[1] * k + c) \div Radix)

(* a + b + c for a carry c *)
RECURSIVE LAdd(_, _, _)
LAdd(a, b, c) ==
    IF a = <<>> THEN LMulAdd(b, 1, c)
    ELSE IF b = <<>> THEN LMulAdd(a, 1, c)
    ELSE <<(a[1] + b[1] + c) % Radix>>
         \o LAdd(Tail(a), Tail(b), (a[1] + b[1] + c) \div Radix)

(* a - b - c for a >= b + c and a borrow c, the leading zeros kept *)
RECURSIVE LSubBorrow(_, _, _)
LSubBorrow(a, b, c) ==
    IF a = <<>> THEN <<>>
    ELSE <<(a[1] - (IF b = <<>> THEN 0 ELSE b[1]) - c + Radix) % Radix>>
         \o LSubBorrow(Tail(a), IF b = <<>> THEN <<>> ELSE Tail(b),
                       IF a[1] - (IF b = <<>> THEN 0 ELSE b[1]) - c < 0 THEN 1 ELSE 0)

LSub(a, b) == LNorm(LSubBorrow(a, b, 0))

LLt(a, b) ==
    \/ Len(a) < Len(b)
    \/ /\ Len(a) = Len(b)
       /\ \E i \in 1..Len(a) :
             a[i] < b[i] /\ \A j \in (i + 1)..Len(a) : a[j] = b[j]

(* a x b, limb by limb of b from the top *)
RECURSIVE LMulFrom(_, _, _, _)
LMulFrom(a, b, i, acc) ==
    IF Len(acc) < 0 \/ i = 0 THEN acc
    ELSE LMulFrom(a, b, i - 1,
                  LAdd(LMulAdd(a, b[i], 0), IF acc = <<>> THEN <<>> ELSE <<0>> \o acc, 0))

LMul(a, b) == IF a = <<>> THEN <<>> ELSE LMulFrom(a, b, Len(b), <<>>)

(* 5^n, by squaring *)
RECURSIVE LPow5(_)
LPow5(n) ==
    IF n <= 6 THEN LFromNat(Pow5(n))
    ELSE LET h == LPow5(n \div 2)
         IN  IF n % 2 = 1 THEN LMulAdd(LMul(h, h), 5, 0) ELSE LMul(h, h)

(* The number of bits of a *)
LBitLen(a) == IF a = <<>> THEN 0 ELSE 15 * (Len(a) - 1) + BitLen(a[Len(a)])

(* a x 2^s *)
LShiftLeft(a, s) ==
    IF a = <<>> THEN <<>> ELSE Zeros(s \div 15) \o LMulAdd(a, Pow2(s % 15), 0)

(* The whole part of a / 2^s *)
LShiftRight(a, s) ==
    IF s \div 15 >= Len(a) THEN <<>>
    ELSE LET b == SubSeq(a, s \div 15 + 1, Len(a))
             r == Pow2(s % 15)
         IN  LNorm([i \in 1..Len(b) |->
                       b[i] \div r
                       + ((IF i < Len(b) THEN b[i + 1] ELSE 0) % r) * (Radix \div r)])

(* Bit i of a, bit 0 being the least significant *)
LBit(a, i) ==
    IF i < 0 \/ i \div 15 >= Len(a) THEN 0 ELSE (a[i \div 15 + 1] \div Pow2(i % 15)) % 2

(* The s least significant bits of a are 0 *)
LLowZero(a, s) ==
    \A i \in 1..Len(a) :
        /\ i <= s \div 15 => a[i] = 0
        /\ i = s \div 15 + 1 => a[i] % Pow2(s % 15) = 0

(* a in decimal digits *)
RECURSIVE LToDecimal(_)
LToDecimal(a) ==
    IF a = <<>> THEN <<>> ELSE BigMulAdd(LToDecimal(Tail(a)), Radix, a[1])

DBL_MANT_DIG == 53
DBL_MIN_EXP == -1021
DBL_MAX_EXP == 1024
DBL_MAX_10_EXP == 308

BinZero == [cls |-> "finite", neg |-> FALSE, mant |-> <<>>, exp |-> 0]
BinNaN == [cls |-> "nan", neg |-> FALSE, mant |-> <<>>, exp |-> 0]
BinInf(neg) == [cls |-> "inf", neg |-> neg, mant |-> <<>>, exp |-> 0]

(* The double of mantissa mant and exponent exp: infinite when the         *)
(* exponent is above that of DBL_MAX                                       *)
BinFinite(neg, mant, exp) ==
    IF exp > DBL_MAX_EXP - DBL_MANT_DIG THEN BinInf(neg)
    ELSE [cls |-> "finite", neg |-> neg, mant |-> mant, exp |-> exp]

(* A mantissa that rounding brought to 2^53 is written with 53 bits *)
BinMake(neg, mant, exp) ==
    IF mant = <<>> THEN BinZero
    ELSE IF LBitLen(mant) > DBL_MANT_DIG
    THEN BinFinite(neg, LShiftRight(mant, 1), exp + 1)
    ELSE BinFinite(neg, mant, exp)

(* n x 2^e with its s last bits rounded away, to nearest and ties to even, *)
(* inexact telling that the number rounded is above n x 2^e                *)
BinRoundAway(neg, n, e, s, inexact) ==
    IF LBit(n, s - 1) = 1
       /\ (inexact \/ ~LLowZero(n, s - 1) \/ LBit(n, s) = 1)
    THEN BinMake(neg, LMulAdd(LShiftRight(n, s), 1, 1), e + s)
    ELSE BinMake(neg, LShiftRight(n, s), e + s)

(* The double nearest to n x 2^e, or to a number between that and          *)
(* (n + 1) x 2^e if inexact (n has more than 54 bits then): the exponent   *)
(* is the one that leaves 53 bits, or that of the subnormals               *)
BinRoundTo(neg, n, e, exp, inexact) ==
    IF exp <= e THEN BinMake(neg, LShiftLeft(n, e - exp), exp)
    ELSE BinRoundAway(neg, n, e, exp - e, inexact)

BinRound(neg, n, e, inexact) ==
    BinRoundTo(neg, n, e,
               IF e + LBitLen(n) - DBL_MANT_DIG < DBL_MIN_EXP - DBL_MANT_DIG
               THEN DBL_MIN_EXP - DBL_MANT_DIG
               ELSE e + LBitLen(n) - DBL_MANT_DIG,
               inexact)

(* Long division: st.i more bits of the quotient st.q of a remainder st.r  *)
(* by d                                                                    *)
RECURSIVE BinDivide(_, _)
BinDivide(st, d) ==
    IF st.i = 0 THEN st
    ELSE IF LLt(LShiftLeft(st.r, 1), d)
    THEN BinDivide([q |-> LShiftLeft(st.q, 1), r |-> LShiftLeft(st.r, 1),
                    i |-> st.i - 1], d)
    ELSE BinDivide([q |-> LMulAdd(st.q, 2, 1), r |-> LSub(LShiftLeft(st.r, 1), d),
                    i |-> st.i - 1], d)

BinDivide14(st, d) == BinDivide([st EXCEPT !.i = 14], d)

(* The first 57 bits of r / d, r and d having as many bits, and what is    *)
(* left: the first bit, then four times fourteen                           *)
BinQuotient(r, d) ==
    BinDivide14(BinDivide14(BinDivide14(BinDivide14(
        IF LLt(r, d) THEN [q |-> <<>>, r |-> r, i |-> 0]
        ELSE [q |-> <<1>>, r |-> LSub(r, d), i |-> 0], d), d), d), d)

(* m / d x 2^e, a being the bits of m less those of d *)
BinRatio(neg, m, d, e, a) ==
    LET st == BinQuotient(IF a < 0 THEN LShiftLeft(m, -a) ELSE m,
                          IF a > 0 THEN LShiftLeft(d, a) ELSE d)
    IN  BinRound(neg, st.q, e + a - (DBL_MANT_DIG + 3), st.r # <<>>)

(* The double nearest to the decimal m x 10^e, m > 0: 10^e is 5^e x 2^e *)
BinDecimal(neg, m, e) ==
    IF e >= 0 THEN BinRound(neg, LMul(LPow5(e), LFromNat(m)), e, FALSE)
    ELSE BinRatio(neg, LFromNat(m), LPow5(-e), e,
                  LBitLen(LFromNat(m)) - LBitLen(LPow5(-e)))

(* The double a record of the decimal kind stands for *)
ToBinary(x) ==
    IF IsNaN(x) THEN BinNaN
    ELSE IF x.k \in {1, -1} THEN BinInf(x.k = -1)
    ELSE IF x.m = 0 THEN BinZero
    ELSE IF IsExact(x) THEN BinDecimal(x.m < 0, Abs(x.m), x.e)
    ELSE IF Abs(x.m) = TwoPow64.m /\ x.e = TwoPow64.e
    THEN BinRound(x.m < 0, <<1>>, 64, FALSE)
    ELSE IF Abs(x.m) = DBL_MAX.m /\ x.e = DBL_MAX.e
    THEN BinMake(x.m < 0, LSub(LShiftLeft(<<1>>, DBL_MANT_DIG), <<1>>),
                 DBL_MAX_EXP - DBL_MANT_DIG)
    ELSE IF Abs(x.m) = DBL_MIN.m /\ x.e = DBL_MIN.e
    THEN BinRound(x.m < 0, <<1>>, DBL_MIN_EXP - 1, FALSE)
    ELSE BinRound(x.m < 0, <<1>>, DBL_MIN_EXP - DBL_MANT_DIG, FALSE)

(* math.h pow(10.0, p) of the C library: the double nearest to 10^p, but   *)
(* for 10^23 and 10^210, where it is the double above the nearest;         *)
(* infinite from 10^309 and zero below 10^-323                             *)
PowTen(p) ==
    IF p > DBL_MAX_10_EXP THEN BinInf(FALSE)
    ELSE IF p < -323 THEN BinZero
    ELSE IF p \in {23, 210}
    THEN [BinDecimal(FALSE, 1, p) EXCEPT !.mant = LMulAdd(@, 1, 1)]
    ELSE BinDecimal(FALSE, 1, p)

(* The product a * b of two doubles *)
BinMul(a, b) ==
    IF a.cls = "nan" \/ b.cls = "nan" THEN BinNaN
    ELSE IF a.cls = "inf" \/ b.cls = "inf"
    THEN IF (a.cls = "finite" /\ a.mant = <<>>) \/ (b.cls = "finite" /\ b.mant = <<>>)
         THEN BinNaN
         ELSE BinInf(a.neg # b.neg)
    ELSE IF a.mant = <<>> \/ b.mant = <<>> THEN BinZero
    ELSE BinRound(a.neg # b.neg, LMul(a.mant, b.mant), a.exp + b.exp, FALSE)

(* Line 339: x *= pow(10.0, unitPrefix), x being what stringToDouble       *)
(* stored                                                                  *)
ScalePow10(x, unitPrefix) == BinMul(ToBinary(x), PowTen(unitPrefix))

(* The whole part of the magnitude of a finite double, in decimal digits   *)
Truncate(x) ==
    LToDecimal(IF x.exp >= 0 THEN LShiftLeft(x.mant, x.exp)
               ELSE LShiftRight(x.mant, -x.exp))

(* Line 341, x < 0.0 *)
BelowZero(x) == x.cls # "nan" /\ x.neg

(* Line 341: SIZE_MAX is converted to double for the comparison, which     *)
(* rounds it up to 2^64; a double of more than 65 bits before the point is *)
(* above it                                                                *)
SizeMaxAsDouble == BigMulAdd(SIZE_MAX, 1, 1)

AboveSizeMax(x) ==
    /\ x.cls # "nan" /\ ~x.neg
    /\ \/ x.cls = "inf"
       \/ LBitLen(x.mant) + x.exp > 65
       \/ BigGt(Truncate(x), SizeMaxAsDouble)

(* Line 344: the conversion to size_t is defined for the values whose      *)
(* whole part the type holds; undefined stands for what it yields          *)
(* otherwise                                                               *)
DoubleToSize(x, undefined) ==
    IF x.cls = "finite" /\ LBitLen(x.mant) + x.exp <= 64
       /\ (x.neg => LBitLen(x.mant) + x.exp <= 0)
    THEN Truncate(x)
    ELSE undefined

(* The result of stringToMemory: bytes is the caller's variable after the  *)
(* call, wrote tells whether it was assigned, x is the local of that name  *)
(* when the call returns, unit tells whether parseMemoryUnit recognised a  *)
(* suffix and unitPrefix is the exponent applied; d is the result of the   *)
(* number parse                                                            *)
MemResult(err, bytes, endptr, wrote, x, unit, unitPrefix, d) ==
    [err |-> err, bytes |-> bytes, endptr |-> endptr, wrote |-> wrote, x |-> x,
     unit |-> unit, unitPrefix |-> unitPrefix, d |-> d]

(* Lines 344-351, b being the converted byte count *)
MemoryBounds(s, min, max, endptr, x, unit, unitPrefix, d, b) ==
    MemResult(IF BigLt(b, min) THEN PARSE_EMIN
              ELSE IF BigGt(b, max) THEN PARSE_EMAX
              ELSE IF At(s, endptr) = NUL THEN PARSE_SUCCESS
              ELSE PARSE_EEND,
              b, endptr, TRUE, x, unit, unitPrefix, d)

(* Lines 339-344, x being the scaled number *)
MemoryScaled(s, min, max, bytes, endptr, x, unit, unitPrefix, d, undefined) ==
    IF BelowZero(x) \/ AboveSizeMax(x)
    THEN MemResult(PARSE_ERANGE, bytes, endptr, FALSE, x, unit, unitPrefix, d)
    ELSE MemoryBounds(s, min, max, endptr, x, unit, unitPrefix, d,
                      DoubleToSize(x, undefined))

(* A parser that leaves the cursor where the unit parser stopped *)
MemoryUnit_NoRollback(s, min, max, bytes, magnitude, d, u, undefined) ==
    IF u.ret < 0
    THEN MemoryScaled(s, min, max, bytes, u.endptr, ScalePow10(d.x, magnitude),
                      FALSE, magnitude, d, undefined)
    ELSE MemoryScaled(s, min, max, bytes, u.endptr, ScalePow10(d.x, u.ret),
                      TRUE, u.ret, d, undefined)

(* Lines 323-333, u being the result of parseMemoryUnit *)
MemoryUnit(s, min, max, bytes, magnitude, d, u, undefined) ==
    IF u.ret < 0
    THEN MemoryScaled(s, min, max, bytes, d.endptr, ScalePow10(d.x, magnitude),
                      FALSE, magnitude, d, undefined)
    ELSE MemoryScaled(s, min, max, bytes, u.endptr, ScalePow10(d.x, u.ret),
                      TRUE, u.ret, d, undefined)

(* A parser that takes a number without a unit for a count of bytes *)
MemoryNumber_NoDefault(s, min, max, bytes, magnitude, d, undefined) ==
    IF d.err = PARSE_SUCCESS
    THEN MemoryScaled(s, min, max, bytes, d.endptr, ScalePow10(d.x, 0),
                      FALSE, 0, d, undefined)
    ELSE IF d.err = PARSE_EEND
    THEN MemoryUnit(s, min, max, bytes, magnitude, d, parseMemoryUnit(s, d.endptr),
                    undefined)
    ELSE MemResult(d.err, bytes, d.endptr, FALSE, ToBinary(d.x), FALSE, 0, d)

(* Lines 317-337, d being the result of stringToDouble *)
MemoryNumber(s, min, max, bytes, magnitude, d, undefined) ==
    IF d.err = PARSE_SUCCESS
    THEN MemoryScaled(s, min, max, bytes, d.endptr, ScalePow10(d.x, magnitude),
                      FALSE, magnitude, d, undefined)
    ELSE IF d.err = PARSE_EEND
    THEN MemoryUnit(s, min, max, bytes, magnitude, d, parseMemoryUnit(s, d.endptr),
                    undefined)
    ELSE MemResult(d.err, bytes, d.endptr, FALSE, ToBinary(d.x), FALSE, 0, d)

(* bytes is the value of the caller's variable before the call *)
stringToMemory(s, nptr, min, max, magnitude, bytes, undefined) ==
    MemoryNumber(s, min, max, bytes, magnitude,
                 stringToDouble(s, SkipSpace(s, nptr), Zero, DBL_MAX), undefined)

----------------------------------------------------------------------------
(* The literals of complex values that callers pass: a coefficient         *)
(* m x 10^e with -4 <= e <= 0 is written with all its digits, the whole    *)
(* part, and after a point the fraction                                    *)

RECURSIVE DecimalDigits(_, _)
DecimalDigits(n, width) ==
    IF n < 10 /\ width <= 1 THEN <<Digits[n + 1]>>
    ELSE Append(DecimalDigits(n \div 10, width - 1), Digits[(n % 10) + 1])

DecimalText(x) ==
    LET a == Abs(x.m)
        body == IF x.e >= 0 THEN DecimalDigits(a * Pow10(x.e), 1)
                ELSE DecimalDigits(a \div Pow10(-x.e), 1) \o <<".">>
                     \o DecimalDigits(a % Pow10(-x.e), -x.e)
    IN  IF x.m < 0 THEN <<"-">> \o body ELSE body

(* The literal "a+bi" or "a-bi" (order 1), and the same value written with *)
(* the imaginary term first, "bi+a" or "-bi+a" (order 2)                   *)
ComplexLiteral(re, im, op, order) ==
    IF order = 1
    THEN DecimalText(re) \o <<IF op = 1 THEN "+" ELSE "-">> \o DecimalText(im) \o <<"i">>
    ELSE DecimalText(MulSign(im, op)) \o <<"i", "+">> \o DecimalText(re)

----------------------------------------------------------------------------
(* The calls *)

(* A text is at most MaxLen tokens, written one after the other *)
MaxLen == 4

Tokens ==
    {<<"3">>, <<"4">>, <<"+">>, <<"-">>, <<"i">>, <<"I">>, <<" ">>,
     <<"i", "n", "f">>, <<"n", "a", "n">>}

RECURSIVE Flatten(_)
Flatten(ts) == IF ts = <<>> THEN <<>> ELSE Head(ts) \o Flatten(Tail(ts))

Texts == {Flatten(ts) : ts \in UNION {[1..n -> Tokens] : n \in 0..MaxLen}}

(* The bounds a caller passes: everything (as test/percy_demo.c does), and *)
(* a real lane of -3..3 with an imaginary lane of 0..4                     *)
BoundPairs ==
    {[min |-> CMPLX_MIN, max |-> CMPLX_MAX],
     [min |-> [re |-> Fin(-3), im |-> Zero], max |-> [re |-> Fin(3), im |-> Fin(4)]]}

(* What the memory a call finds may hold: z is the caller's result         *)
(* variable before the call, stack an uninitialised complex local          *)
Memories ==
    {[z |-> [re |-> Zero, im |-> Zero], stack |-> [re |-> Fin(5), im |-> Fin(6)]],
     [z |-> [re |-> Fin(7), im |-> Fin(8)], stack |-> [re |-> NaN, im |-> NaN]]}

(* Terms whose coefficient is out of the range of double, above it and     *)
(* below it, alone and in a literal of two terms                           *)
ExponentTexts ==
    {p \o <<"3", "e">> \o e \o u :
         p \in {<<>>, <<"-">>},
         e \in {<<"9", "9", "9">>, <<"-", "9", "9", "9">>},
         u \in {<<>>, <<"i">>, <<"+", "4", "i">>}}

(* The coefficients of the literals *)
Coefs == {Fin(-4), Norm(-35, -1), Zero, Norm(5, -1), Fin(3), Fin(4)}

NoSrc == [re |-> Zero, im |-> Zero, op |-> 0, order |-> 0]

(* No call made at a chosen position yet *)
NoArg == [nptr |-> 0]
NoRes == [err |-> PARSE_SUCCESS, endptr |-> 0]

NoComplex ==
    [err |-> PARSE_SUCCESS, z |-> [re |-> Zero, im |-> Zero], endptr |-> 0,
     partEndptr |-> 0, first |-> NoPart, ops |-> FALSE, operator |-> 0,
     second |-> NoPart]

VARIABLES
    text,    \* the caller's text; nptr is its first position
    min,     \* the caller's bounds
    max,
    src,     \* the value and layout text is the literal of, or NoSrc
    pc,      \* "ready" before the call, "done" after it
    fn,      \* the entry point called
    zin,     \* the caller's result variable before the call
    stack,   \* the value of the uninitialised local secondZPart
    cres,    \* the result of stringToComplex
    pres,    \* the result of stringToComplexPart
    arg,     \* the arguments of a call made at any position of the text
    res      \* the result of that call

vars == <<text, min, max, src, pc, fn, zin, stack, cres, pres, arg, res>>

(* The caller's text is any text of Texts or ExponentTexts, or the literal  *)
(* of a complex value, which src then records                              *)
Init ==
    /\ \/ text \in Texts \cup ExponentTexts /\ src = NoSrc
       \/ \E re \in Coefs, im \in Coefs, op \in {1, -1}, order \in {1, 2} :
             /\ text = ComplexLiteral(re, im, op, order)
             /\ src = [re |-> re, im |-> im, op |-> op, order |-> order]
    /\ \E b \in BoundPairs : min = b.min /\ max = b.max
    /\ pc = "ready"
    /\ fn = "none"
    /\ zin = [re |-> Zero, im |-> Zero]
    /\ stack = [re |-> Zero, im |-> Zero]
    /\ cres = NoComplex
    /\ pres = NoPart
    /\ arg = NoArg
    /\ res = NoRes

CallStringToComplex ==
    /\ pc = "ready"
    /\ \E m \in Memories :
          /\ zin' = m.z
          /\ stack' = m.stack
          /\ cres' = stringToComplex(text, 1, min, max, m.z, m.stack)
    /\ fn' = "stringToComplex"
    /\ pc' = "done"
    /\ UNCHANGED <<text, min, max, src, pres, arg, res>>

CallStringToComplexPart ==
    /\ pc = "ready"
    /\ \E m \in Memories :
          /\ zin' = m.z
          /\ pres' = stringToComplexPart(text, 1, min, max, m.z, COMPLEX_NONE)
    /\ fn' = "stringToComplexPart"
    /\ pc' = "done"
    /\ UNCHANGED <<text, min, max, src, stack, cres, arg, res>>

Next ==
    \/ CallStringToComplex
    \/ CallStringToComplexPart

Spec == Init /\ [][Next]_vars

----------------------------------------------------------------------------
(* Every entry point, called at the first or the second character of a     *)
(* text of its own alphabet                                                *)

(* A text is at most EntryLen tokens *)
EntryLen == 3

TextsOver(tokens) ==
    {Flatten(ts) : ts \in UNION {[1..n -> tokens] : n \in 0..EntryLen}}

IntTexts ==
    TextsOver({<<"0">>, <<"1">>, <<"f">>, <<"x">>, <<"-">>, <<" ">>,
               <<"1","8","4","4","6","7","4","4","0","7","3","7","0","9","5","5","1","6","1","5">>})

(* Hexadecimal floats, whole and cut short, and NaN with a payload *)
HexTexts ==
    {<<"0", "x", "1", "0">>, <<"0", "x">>, <<"0", "X", ".", "8">>, <<"0", "x", ".">>,
     <<"0", "x", "1", "p", "3">>, <<"0", "x", "1", "p">>, <<"0", "x", "1", "P", "-", "1", " ">>,
     <<"-", "0", "x", "a", "g">>, <<VT, "0", "x", "1", "p", "9", "9", "9", "9">>,
     <<"0", "x", "1", "p", "-", "1", "0", "7", "5">>,
     <<"n", "a", "n", "(", "_", "1", ")">>, <<"n", "a", "n", "(", ")", "z">>,
     <<"n", "a", "n", "(", "1">>}

DoubleTexts ==
    TextsOver({<<"5">>, <<".">>, <<"-">>, <<" ">>, <<VT>>, <<"z">>, <<"e","9","9","9">>,
               <<"e","-","9","9","9">>, <<"i","n","f">>})
    \cup HexTexts

MemoryTexts ==
    TextsOver({<<"5">>, <<"k">>, <<"M">>, <<"G">>, <<"T">>, <<"P">>, <<"E">>,
               <<"Z">>, <<"Y">>, <<"B">>, <<"b">>, <<" ">>})

(* Numbers and what follows them, for the memory parser: fractions, among  *)
(* them some that no double holds exactly, signs, NaN, a hexadecimal       *)
(* number, numbers out of the range of double and the numbers at SIZE_MAX  *)
MemoryNumbers ==
    {<<"5">>, <<"1", ".", "5">>, <<"-", "5">>, <<"-", "0">>, <<"n", "a", "n">>,
     <<"0", "x", "1">>, <<"1", ".", "0", "0", "1">>, <<"0", ".", "5", "7">>,
     <<"1", "8", ".", "4">>,
     <<"5", "e", "9", "9", "9">>, <<"-", "5", "e", "9", "9", "9">>,
     <<"1","8","4","4","6","7","4","4","0","7","3","7","0","9","5","5","1","6","1","5">>,
     <<"1","8","4","4","6","7","4","4","0","7","3","7","0","9","5","5","1","6","1","6">>}

MemorySuffixes ==
    {<<>>, <<"B">>, <<"k", "B">>, <<"k">>, <<"k", "x">>, <<" ">>, <<" ", "x">>,
     <<" ", "k", "B">>, <<"E", "B">>}

MemoryPhrases == {n \o u : n \in MemoryNumbers, u \in MemorySuffixes}

ComplexTexts ==
    TextsOver({<<"3">>, <<"4">>, <<"i">>, <<"+">>, <<"-">>, <<" ">>, <<"z">>})

(* The value the caller's integer variable holds before the call *)
PriorValue == <<7, 7>>

(* base, min and max of the integer parsers *)
IntCalls ==
    {[nptr |-> 1, base |-> b, min |-> <<>>, max |-> ULONG_MAX, x |-> PriorValue] :
         b \in {-1, 0, 1, 2, 10, 16, 36, 37}}
    \cup {[nptr |-> 1, base |-> 10, min |-> <<>>, max |-> <<5, 0>>, x |-> PriorValue],
          [nptr |-> 1, base |-> 10, min |-> <<1, 0>>, max |-> <<1, 0, 0>>, x |-> PriorValue],
          [nptr |-> 1, base |-> 16, min |-> <<1>>, max |-> <<5, 0>>, x |-> PriorValue],
          [nptr |-> 2, base |-> 10, min |-> <<>>, max |-> ULONG_MAX, x |-> PriorValue]}

UIntMaxCalls ==
    {c \in IntCalls : c.base \in {0, 10, 37} /\ c.nptr = 1}

DoubleCalls ==
    {[nptr |-> 1, min |-> MulSign(DBL_MAX, -1), max |-> DBL_MAX],
     [nptr |-> 1, min |-> Zero, max |-> Fin(5)],
     [nptr |-> 2, min |-> Norm(-55, -1), max |-> Fin(55)]}

(* magnitude, min and max of the memory parser *)
MemoryCalls ==
    {[nptr |-> 1, magnitude |-> g, min |-> <<>>, max |-> SIZE_MAX, x |-> PriorValue] :
         g \in {0, 6}}
    \cup {[nptr |-> 1, magnitude |-> 3, min |-> <<1, 0>>, max |-> <<5, 0, 0, 0>>,
           x |-> PriorValue],
          [nptr |-> 2, magnitude |-> -1, min |-> <<>>, max |-> SIZE_MAX, x |-> PriorValue]}

PhraseCalls ==
    {[nptr |-> 1, magnitude |-> g, min |-> <<>>, max |-> SIZE_MAX, x |-> PriorValue] :
         g \in {0, 6}}
    \cup {[nptr |-> 1, magnitude |-> 0, min |-> <<>>, max |-> <<1>>, x |-> PriorValue],
          [nptr |-> 1, magnitude |-> 3, min |-> <<1, 0>>, max |-> <<5, 0, 0, 0>>,
           x |-> PriorValue],
          [nptr |-> 1, magnitude |-> 2, min |-> <<>>, max |-> SIZE_MAX, x |-> PriorValue],
          [nptr |-> 1, magnitude |-> DBL_MAX_10_EXP + 1, min |-> <<>>, max |-> SIZE_MAX,
           x |-> PriorValue]}

(* The calls made on a text *)
MemoryCallsOn(s) ==
    (IF s \in MemoryTexts THEN MemoryCalls ELSE {})
    \cup (IF s \in MemoryPhrases THEN PhraseCalls ELSE {})

(* What the conversion to size_t may yield where it is undefined *)
UndefinedSizes == {<<>>, <<9, 2, 2, 3, 3, 7, 2, 0, 3, 6, 8, 5, 4, 7, 7, 5, 8, 0, 8>>}

ComplexCalls ==
    {[nptr |-> n, min |-> b.min, max |-> b.max, z |-> m.z, stack |-> m.stack] :
         n \in {1, 2}, b \in BoundPairs, m \in Memories}

EntryInit ==
    /\ text \in IntTexts \cup DoubleTexts \cup MemoryTexts \cup MemoryPhrases
                \cup ComplexTexts
    /\ min = CMPLX_MIN
    /\ max = CMPLX_MAX
    /\ src = NoSrc
    /\ pc = "ready"
    /\ fn = "none"
    /\ zin = [re |-> Zero, im |-> Zero]
    /\ stack = [re |-> Zero, im |-> Zero]
    /\ cres = NoComplex
    /\ pres = NoPart
    /\ arg = NoArg
    /\ res = NoRes

(* The call of an entry point with arguments c, r being what it returns *)
Return(name, c, r) ==
    /\ c.nptr <= Len(text) + 1
    /\ arg' = c
    /\ res' = r
    /\ fn' = name
    /\ pc' = "done"
    /\ UNCHANGED <<text, min, max, src, zin, stack, cres, pres>>

EntryULong ==
    /\ pc = "ready"
    /\ text \in IntTexts
    /\ \E c \in IntCalls :
          Return("stringToULong", c,
                 stringToULong(text, c.nptr, c.min, c.max, c.base, c.x))

EntryUIntMax ==
    /\ pc = "ready"
    /\ text \in IntTexts
    /\ \E c \in UIntMaxCalls :
          Return("stringToUIntMax", c,
                 stringToUIntMax(text, c.nptr, c.min, c.max, c.base, c.x))

EntryDouble ==
    /\ pc = "ready"
    /\ text \in DoubleTexts
    /\ \E c \in DoubleCalls :
          Return("stringToDouble", c, stringToDouble(text, c.nptr, c.min, c.max))

EntryMemory ==
    /\ pc = "ready"
    /\ \E c \in MemoryCallsOn(text), u \in UndefinedSizes :
          Return("stringToMemory", c,
                 stringToMemory(text, c.nptr, c.min, c.max, c.magnitude, c.x, u))

EntryComplexPart ==
    /\ pc = "ready"
    /\ text \in ComplexTexts
    /\ \E c \in ComplexCalls :
          Return("stringToComplexPart", c,
                 stringToComplexPart(text, c.nptr, c.min, c.max, c.z, COMPLEX_NONE))

EntryComplex ==
    /\ pc = "ready"
    /\ text \in ComplexTexts
    /\ \E c \in ComplexCalls :
          Return("stringToComplex", c,
                 stringToComplex(text, c.nptr, c.min, c.max, c.z, c.stack))

EntryNext ==
    \/ EntryULong
    \/ EntryUIntMax
    \/ EntryDouble
    \/ EntryMemory
    \/ EntryComplexPart
    \/ EntryComplex

SpecEntry == EntryInit /\ [][EntryNext]_vars

----------------------------------------------------------------------------
(* strncpyGraph (parser.c 437-451), one step of its loop at a time         *)

Punctuation ==
    {"!", "\"", "#", "$", "%", "&", "'", "(", ")", "*", "+", ",", "-", ".", "/",
     ":", ";", "<", "=", ">", "?", "@", "[", "\\", "]", "^", "_", GRAVE, "{", "|",
     "}", "~"}

(* isgraph in the C locale: the printing characters other than the space *)
isgraph(c) == isalnum(c) \/ c \in Punctuation

(* n - 1 in size_t arithmetic: 0 - 1 is SIZE_MAX (line 441) *)
NMinusOne(n) == IF n = 0 THEN SIZE_MAX ELSE NatToBig(n - 1)

(* What dest holds before the call, one cell for each character the call   *)
(* can write when nothing stops it; the cells are numbered as in C         *)
PriorDest(s) == [k \in 0..Len(s) |-> "?"]

(* The state of a call: the memory at dest, the loop variables, the cells  *)
(* written so far and, once it has returned, the value returned            *)
GraphState(dest, i, j, written, returned, ret) ==
    [dest |-> dest, i |-> i, j |-> j, written |-> written, returned |-> returned,
     ret |-> ret]

(* Line 441: the condition of the loop *)
GraphContinues(s, n, st) ==
    At(s, st.i + 1) # NUL /\ BigLt(NatToBig(st.j), NMinusOne(n))

(* Lines 443-444 and the increment of line 441 *)
GraphIterate(s, st) ==
    IF isgraph(At(s, st.i + 1))
    THEN GraphState([st.dest EXCEPT ![st.j] = At(s, st.i + 1)], st.i + 1, st.j + 1,
                    st.written \cup {st.j}, FALSE, 0)
    ELSE GraphState(st.dest, st.i + 1, st.j, st.written, FALSE, 0)

(* Lines 447-450 *)
GraphTerminate(st) ==
    GraphState([st.dest EXCEPT ![st.j] = NUL], st.i, st.j, st.written \cup {st.j},
               TRUE, st.j)

(* The whole call *)
RECURSIVE GraphRun(_, _, _)
GraphRun(s, n, st) ==
    IF GraphContinues(s, n, st) THEN GraphRun(s, n, GraphIterate(s, st))
    ELSE GraphTerminate(st)

strncpyGraph(dest, s, n) == GraphRun(s, n, GraphState(dest, 0, 0, {}, FALSE, 0))

GraphLen == 3

GraphTexts == UNION {[1..n -> {"a", "-", " ", "\t"}] : n \in 0..GraphLen}

GraphInit ==
    /\ text \in GraphTexts
    /\ min = CMPLX_MIN
    /\ max = CMPLX_MAX
    /\ src = NoSrc
    /\ pc = "loop"
    /\ fn = "strncpyGraph"
    /\ zin = [re |-> Zero, im |-> Zero]
    /\ stack = [re |-> Zero, im |-> Zero]
    /\ cres = NoComplex
    /\ pres = NoPart
    /\ \E n \in 0..(GraphLen + 1) : arg = [n |-> n]
    /\ res = GraphState(PriorDest(text), 0, 0, {}, FALSE, 0)

(* An iteration that copies a character *)
GraphCopy ==
    /\ pc = "loop"
    /\ GraphContinues(text, arg.n, res)
    /\ isgraph(At(text, res.i + 1))
    /\ res' = GraphIterate(text, res)
    /\ UNCHANGED <<text, min, max, src, pc, fn, zin, stack, cres, pres, arg>>

(* An iteration that skips a character *)
GraphSkip ==
    /\ pc = "loop"
    /\ GraphContinues(text, arg.n, res)
    /\ ~isgraph(At(text, res.i + 1))
    /\ res' = GraphIterate(text, res)
    /\ UNCHANGED <<text, min, max, src, pc, fn, zin, stack, cres, pres, arg>>

(* The loop ends, the terminator is written and the call returns *)
GraphReturn ==
    /\ pc = "loop"
    /\ ~GraphContinues(text, arg.n, res)
    /\ res' = GraphTerminate(res)
    /\ pc' = "done"
    /\ UNCHANGED <<text, min, max, src, fn, zin, stack, cres, pres, arg>>

GraphNext ==
    \/ GraphCopy
    \/ GraphSkip
    \/ GraphReturn

SpecGraph == GraphInit /\ [][GraphNext]_vars

----------------------------------------------------------------------------
(* The option loop of test/percy_demo.c (main, lines 85-198)               *)

BASE_DEC == 10

(* The values main returns (lines 168 and 197) *)
ExitFailure == 1
ExitSuccess == 0

(* The options that are parsed, in the order their values are printed      *)
(* (lines 170-183), and what getopt_long returns for an option that is not *)
(* known and, GETOPT_STRING starting with a colon (line 57), for an option *)
(* that lacks its argument                                                 *)
ParsedOptions == <<"u", "x", "d", "i", "c", "m">>
UnknownOption == "?"
MissingArgument == ":"

IsParsed(id) == \E k \in 1..Len(ParsedOptions) : ParsedOptions[k] = id

(* The arguments given to the options: parsed whole, parsed in part, and   *)
(* not parsed; and imaginary terms, for the complex options                *)
DemoTexts == {<<"5">>, <<"5", "x">>, <<"x">>}
DemoTerms == {<<"4", "i">>, <<"n", "a", "n", "i">>}

(* What getopt_long hands out: an option with its argument, an option      *)
(* that is not known, an option that lacks its argument, or --imaginary,   *)
(* whose argument is optional (line 64), given without one: optarg is then *)
(* NULL                                                                    *)
DemoOptions ==
    {[id |-> ParsedOptions[k], optarg |-> t, null |-> FALSE] :
         k \in 1..Len(ParsedOptions), t \in DemoTexts}
    \cup {[id |-> id, optarg |-> t, null |-> FALSE] : id \in {"i", "c"}, t \in DemoTerms}
    \cup {[id |-> UnknownOption, optarg |-> <<>>, null |-> TRUE],
          [id |-> MissingArgument, optarg |-> <<>>, null |-> TRUE],
          [id |-> "i", optarg |-> <<>>, null |-> TRUE]}

DemoLen == 2

CommandLines == UNION {[1..n -> DemoOptions] : n \in 0..DemoLen}

(* Lines 138-164: the text written to stderr for an outcome *)
DemoMessage(err) ==
    IF err = PARSE_ERANGE THEN "Argument out of range"
    ELSE IF err = PARSE_EMIN THEN "Argument too small"
    ELSE IF err = PARSE_EMAX THEN "Argument too large"
    ELSE IF err = PARSE_EEND THEN "WARNING: Argument not fully parsed"
    ELSE IF err = PARSE_EBASE THEN "Invalid conversion radix"
    ELSE IF err = PARSE_EFORM THEN "Incorrect argument format"
    ELSE "Unknown parse error"

(* A switch that has no case for the warning *)
Warning_Never(err) == FALSE

(* Lines 152-154: the one outcome after which the loop goes on *)
Warning(err) == err = PARSE_EEND

(* Lines 92-114: the call made for option o.  values holds main's          *)
(* variables, which keep what earlier options left in them: ulx, uintx,    *)
(* dx, imagx with cmplxPt, cmplxx and memx under the letters of their      *)
(* options; secondZPart is what the uninitialised local of stringToComplex *)
(* holds and u what an undefined conversion to size_t gives                *)
DemoCall(o, values, secondZPart, u) ==
    IF o.id = "u"
    THEN LET r == stringToULong(o.optarg, 1, <<>>, ULONG_MAX, BASE_DEC, values["u"])
         IN [err |-> r.err, value |-> r.x]
    ELSE IF o.id = "x"
    THEN LET r == stringToUIntMax(o.optarg, 1, <<>>, UINTMAX_MAX, BASE_DEC, values["x"])
         IN [err |-> r.err, value |-> r.x]
    ELSE IF o.id = "d"
    THEN LET r == stringToDouble(o.optarg, 1, MulSign(DBL_MAX, -1), DBL_MAX)
         IN [err |-> r.err, value |-> r.x]
    ELSE IF o.id = "i"
    THEN LET r == stringToComplexPart(o.optarg, 1, CMPLX_MIN, CMPLX_MAX, values["i"].z,
                                      values["i"].type)
         IN [err |-> r.err, value |-> [z |-> r.z, type |-> r.type]]
    ELSE IF o.id = "c"
    THEN LET r == stringToComplex(o.optarg, 1, CMPLX_MIN, CMPLX_MAX, values["c"],
                                  secondZPart)
         IN [err |-> r.err, value |-> r.z]
    ELSE LET r == stringToMemory(o.optarg, 1, <<>>, SIZE_MAX, MEM_MB, values["m"], u)
         IN [err |-> r.err, value |-> r.bytes]

(* What the call for option o can give when main's variables hold values  *)
DemoResults(o, values) ==
    {DemoCall(o, values, m.stack, u) : m \in Memories, u \in UndefinedSizes}

(* What main's variables, which are not initialised (lines 33-39), may     *)
(* hold when the loop starts                                               *)
DemoMemories ==
    {[u |-> PriorValue, x |-> PriorValue, d |-> Zero,
      i |-> [z |-> m.z,
             type |-> IF m.z = Cx(Zero, Zero) THEN COMPLEX_NONE ELSE COMPLEX_IMAGINARY],
      c |-> m.z, m |-> PriorValue] : m \in Memories}

(* Lines 170-183: the line printed for option id, if any *)
DemoLine(id, values) ==
    IF id # "i" THEN <<[opt |-> id, value |-> values[id]]>>
    ELSE IF values[id].type = COMPLEX_REAL
    THEN <<[opt |-> id, value |-> creal(values[id].z)]>>
    ELSE IF values[id].type = COMPLEX_IMAGINARY
    THEN <<[opt |-> id, value |-> cimag(values[id].z)]>>
    ELSE <<>>

RECURSIVE DemoLines(_, _, _)
DemoLines(k, flags, values) ==
    IF k > Len(ParsedOptions) THEN <<>>
    ELSE (IF ParsedOptions[k] \in flags THEN DemoLine(ParsedOptions[k], values)
          ELSE <<>>) \o DemoLines(k + 1, flags, values)

(* main's state: the options handed out so far, the option and the outcome *)
(* of this iteration, the flags and variables set, what was written to     *)
(* stderr and stdout, the value returned, and whether the process was      *)
(* killed; trace keeps what each option handed out led to                  *)
DemoStart(values) ==
    [optind |-> 0, optionID |-> UnknownOption, err |-> PARSE_SUCCESS, flags |-> {},
     values |-> values, stderr |-> <<>>, stdout |-> <<>>, status |-> ExitSuccess,
     killed |-> FALSE, trace |-> <<>>]

DemoInit ==
    /\ text = <<>>
    /\ min = CMPLX_MIN
    /\ max = CMPLX_MAX
    /\ src = NoSrc
    /\ pc = "getopt"
    /\ fn = "main"
    /\ zin = [re |-> Zero, im |-> Zero]
    /\ stack = [re |-> Zero, im |-> Zero]
    /\ cres = NoComplex
    /\ pres = NoPart
    /\ \E argv \in CommandLines : arg = [argv |-> argv]
    /\ \E values \in DemoMemories : res = DemoStart(values)

DemoFrame == UNCHANGED <<text, min, max, src, fn, zin, stack, cres, pres, arg>>

(* The option getopt_long hands out next (line 86) *)
NextOption == arg.argv[res.optind + 1]

(* Lines 86-114: an option with an argument is parsed *)
DemoParse ==
    /\ pc = "getopt"
    /\ res.optind < Len(arg.argv)
    /\ IsParsed(NextOption.id) /\ ~NextOption.null
    /\ \E r \in DemoResults(NextOption, res.values) :
             res' = [res EXCEPT
                        !.optind = @ + 1,
                        !.optionID = NextOption.id,
                        !.err = r.err,
                        !.flags = @ \cup {NextOption.id},
                        !.values = [@ EXCEPT ![NextOption.id] = r.value],
                        !.trace = Append(@, [id |-> NextOption.id, parsed |-> TRUE,
                                             err |-> r.err])]
    /\ pc' = "switch"
    /\ DemoFrame

(* Lines 104-106 with optarg NULL: the parser reads through the null       *)
(* pointer (parser.c 401) and the process is killed                        *)
DemoCrash ==
    /\ pc = "getopt"
    /\ res.optind < Len(arg.argv)
    /\ IsParsed(NextOption.id) /\ NextOption.null
    /\ res' = [res EXCEPT
                  !.optind = @ + 1,
                  !.optionID = NextOption.id,
                  !.flags = @ \cup {NextOption.id},
                  !.killed = TRUE,
                  !.trace = Append(@, [id |-> NextOption.id, parsed |-> FALSE,
                                       err |-> PARSE_SUCCESS])]
    /\ pc' = "exit"
    /\ DemoFrame

(* Lines 130-131: any other option is passed over *)
DemoSkip ==
    /\ pc = "getopt"
    /\ res.optind < Len(arg.argv)
    /\ ~IsParsed(NextOption.id)
    /\ res' = [res EXCEPT
                  !.optind = @ + 1,
                  !.optionID = NextOption.id,
                  !.err = PARSE_SUCCESS,
                  !.trace = Append(@, [id |-> NextOption.id, parsed |-> FALSE,
                                       err |-> PARSE_SUCCESS])]
    /\ UNCHANGED pc
    /\ DemoFrame

(* Lines 136-137 *)
DemoContinue ==
    /\ pc = "switch"
    /\ res.err = PARSE_SUCCESS
    /\ pc' = "getopt"
    /\ UNCHANGED res
    /\ DemoFrame

(* Lines 150-152 *)
DemoWarn ==
    /\ pc = "switch"
    /\ res.err # PARSE_SUCCESS
    /\ Warning(res.err)
    /\ res' = [res EXCEPT
                  !.stderr = Append(@, [opt |-> res.optionID,
                                        msg |-> DemoMessage(res.err)])]
    /\ pc' = "getopt"
    /\ DemoFrame

(* Lines 138-168: the other outcomes end the program *)
DemoFail ==
    /\ pc = "switch"
    /\ res.err # PARSE_SUCCESS
    /\ ~Warning(res.err)
    /\ res' = [res EXCEPT
                  !.stderr = Append(@, [opt |-> res.optionID,
                                        msg |-> DemoMessage(res.err)]),
                  !.status = ExitFailure]
    /\ pc' = "exit"
    /\ DemoFrame

(* Lines 86 and 170-197: no option is left, the values are printed *)
DemoPrint ==
    /\ pc = "getopt"
    /\ res.optind = Len(arg.argv)
    /\ res' = [res EXCEPT
                  !.stdout = DemoLines(1, res.flags, res.values),
                  !.status = ExitSuccess]
    /\ pc' = "exit"
    /\ DemoFrame

DemoNext ==
    \/ DemoParse
    \/ DemoCrash
    \/ DemoSkip
    \/ DemoContinue
    \/ DemoWarn
    \/ DemoFail
    \/ DemoPrint

SpecDemo == DemoInit /\ [][DemoNext]_vars

----------------------------------------------------------------------------
(* What the claims speak of *)

DoneComplex == pc = "done" /\ fn = "stringToComplex"
DonePart == pc = "done" /\ fn = "stringToComplexPart"

(* The results of the calls the last stringToComplex made: the first term  *)
(* (line 245), the operator's sign (line 260, 0 when none was read) and    *)
(* the second term (line 269, NoPart when it was not parsed)               *)
FirstTerm == cres.first
Operator == IF cres.ops THEN cres.operator ELSE 0
SecondTerm == cres.second

Parsed(e) == e \in {PARSE_SUCCESS, PARSE_EEND}

(* The lane of z that holds terms of a kind, and the other one *)
Lane(z, kind) == IF kind = COMPLEX_REAL THEN z.re ELSE z.im
OtherLane(z, kind) == IF kind = COMPLEX_REAL THEN z.im ELSE z.re

(* lo <= v <= hi *)
Within(v, lo, hi) == (Lt(lo, v) \/ Eq(lo, v)) /\ (Lt(v, hi) \/ Eq(v, hi))

----------------------------------------------------------------------------
(* C1: stringToComplex, duplicate kind.  Whenever the first term parses    *)
(* with trailing data, a sign follows and the second term parses with the  *)
(* kind of the first, the call returns PARSE_EEND, the cursor is the       *)
(* checkpoint after the first term, and the result holds the first term    *)
(* only: its lane set to the first coefficient, the other lane zero.       *)
C1_DuplicateKind ==
    (/\ DoneComplex
     /\ FirstTerm.err = PARSE_EEND
     /\ Operator # 0
     /\ Parsed(SecondTerm.err)
     /\ SecondTerm.type = FirstTerm.type)
    => /\ cres.err = PARSE_EEND
       /\ cres.endptr = FirstTerm.endptr
       /\ cres.partEndptr = FirstTerm.endptr
       /\ Lane(cres.z, FirstTerm.type) = FirstTerm.x
       /\ OtherLane(cres.z, FirstTerm.type) = Zero

(* C2: stringToComplex, malformed continuation.  Once the first term has   *)
(* parsed with trailing data, a missing operator or a second term that     *)
(* fails gives PARSE_EEND, the cursor at the checkpoint and the value of   *)
(* the first term alone; a hard error is returned only when the first      *)
(* term's parse returns it.                                                *)
C2_MalformedContinuation ==
    DoneComplex =>
      /\ (FirstTerm.err = PARSE_EEND /\ (Operator = 0 \/ ~Parsed(SecondTerm.err)))
           => /\ cres.err = PARSE_EEND
              /\ cres.endptr = FirstTerm.endptr
              /\ cres.z = FirstTerm.z
      /\ ~Parsed(cres.err) => (cres.err = FirstTerm.err /\ ~Parsed(FirstTerm.err))

(* "3-inf": the second term is too large and is rolled back *)
C2_Witness ==
    /\ DoneComplex
    /\ FirstTerm.err = PARSE_EEND
    /\ Operator # 0
    /\ SecondTerm.err = PARSE_EMAX
    /\ cres.err = PARSE_EEND
    /\ cres.z.re = Fin(3)

(* C3: stringToComplex, single term.  For every text whose first term      *)
(* consumes it whole, the call returns PARSE_SUCCESS with the lane of the  *)
(* term's kind set to the signed coefficient and the other lane exactly    *)
(* zero, whatever the result variable held before the call.                *)
C3_SingleTerm ==
    (DoneComplex /\ FirstTerm.err = PARSE_SUCCESS)
    => /\ cres.err = PARSE_SUCCESS
       /\ Lane(cres.z, FirstTerm.type) = FirstTerm.x
       /\ OtherLane(cres.z, FirstTerm.type) = Zero

(* C4: round trip.  For a value (re, im) within the caller's bounds the    *)
(* literal "re+imi" parses with PARSE_SUCCESS to (re, im) and the literal  *)
(* "re-imi" to (re, -im), the cursor being at the end of the text.         *)
C4_RoundTrip ==
    (/\ DoneComplex
     /\ src.order = 1
     /\ Within(src.re, creal(min), creal(max))
     /\ Within(src.im, cimag(min), cimag(max)))
    => /\ cres.err = PARSE_SUCCESS
       /\ cres.z = [re |-> src.re, im |-> MulSign(src.im, src.op)]
       /\ cres.endptr = Len(text) + 1

(* "0.5-4i" parsed back under the narrow bounds *)
C4_Witness ==
    /\ DoneComplex
    /\ src.order = 1
    /\ src.op = -1
    /\ src.re = Norm(5, -1)
    /\ src.im = Fin(4)
    /\ cimag(min) = Zero
    /\ cres.z = [re |-> Norm(5, -1), im |-> Fin(-4)]
    /\ cres.err = PARSE_SUCCESS
    /\ text = <<"0", ".", "5", "-", "4", "i">>
    /\ cres.endptr = 7

(* C5: order independence.  "bi+a" gives the status and the value that     *)
(* "a+bi" gives, for all coefficients a and b.                             *)
C5_OrderIndependence ==
    (DoneComplex /\ src.order = 2)
    => (/\ cres.err = stringToComplex(ComplexLiteral(src.re, src.im, src.op, 1), 1,
                                      min, max, zin, stack).err
        /\ cres.z = stringToComplex(ComplexLiteral(src.re, src.im, src.op, 1), 1,
                                    min, max, zin, stack).z)

(* Two real terms: the first parses with trailing data, a sign follows and *)
(* a second real term parses                                               *)
TwoRealTerms ==
    /\ DoneComplex
    /\ FirstTerm.err = PARSE_EEND
    /\ FirstTerm.type = COMPLEX_REAL
    /\ Operator # 0
    /\ Parsed(SecondTerm.err)
    /\ SecondTerm.type = COMPLEX_REAL

(* C6 as the specification states it: a literal of two real terms such as  *)
(* "3+4" returns the first term, (3, 0), with PARSE_SUCCESS.               *)
C6_TwoRealTermsSuccess ==
    TwoRealTerms
    => (cres.z = [re |-> FirstTerm.x, im |-> Zero] /\ cres.err = PARSE_SUCCESS)

(* C6: a literal of two real terms such as "3+4" returns the first term,   *)
(* (3, 0), with PARSE_EEND and the cursor after the first term: the second *)
(* term is dropped and reported as unparsed text.                          *)
C6_TwoRealTermsEnd ==
    TwoRealTerms
    => /\ cres.z = [re |-> FirstTerm.x, im |-> Zero]
       /\ cres.err = PARSE_EEND
       /\ cres.endptr = FirstTerm.endptr
       /\ At(text, cres.endptr) # NUL

C6_Witness ==
    /\ TwoRealTerms
    /\ text = <<"3", "+", "4">>
    /\ cres.z = [re |-> Fin(3), im |-> Zero]
    /\ cres.err = PARSE_EEND
    /\ cres.endptr = 2

(* C7: a first term that fails with a hard error (anything but             *)
(* PARSE_SUCCESS and PARSE_EEND) makes stringToComplex return that error   *)
(* as it is, with no operator read and no second term parsed.              *)
C7_FirstTermError ==
    (DoneComplex /\ ~Parsed(FirstTerm.err))
    => /\ cres.err = FirstTerm.err
       /\ ~cres.ops
       /\ cres.second = NoPart
       /\ cres.partEndptr = 0

(* "inf+3": the first term is too large, though a good term follows *)
C7_Witness ==
    /\ DoneComplex
    /\ text = <<"i", "n", "f", "+", "3">>
    /\ FirstTerm.err = PARSE_EMAX
    /\ cres.err = PARSE_EMAX
    /\ ~cres.ops

(* The second term was merged into the result (lines 284-297) *)
Committed ==
    Operator # 0 /\ Parsed(SecondTerm.err) /\ SecondTerm.type # FirstTerm.type

(* C8: bounds are enforced.  When stringToComplex returns PARSE_SUCCESS or *)
(* PARSE_EEND, each lane set from a parsed term lies within min and max of *)
(* that lane.                                                              *)
C8_BoundsEnforced ==
    (DoneComplex /\ Parsed(cres.err))
    => /\ Within(Lane(cres.z, FirstTerm.type), Lane(min, FirstTerm.type),
                 Lane(max, FirstTerm.type))
       /\ Committed
            => Within(Lane(cres.z, SecondTerm.type), Lane(min, SecondTerm.type),
                      Lane(max, SecondTerm.type))

(* The first two tokens of the text, whitespace aside, are both signs *)
DoubleSign ==
    /\ At(text, SkipSpace(text, 1)) \in {"+", "-"}
    /\ At(text, SkipSpace(text, SkipSpace(text, 1) + 1)) \in {"+", "-"}

(* C9: a term whose first two tokens are both signs is rejected with       *)
(* PARSE_EFORM before any numeric conversion, and nothing is written to    *)
(* the accumulator or to the kind.                                         *)
C9_DoubleSign ==
    /\ (DonePart /\ DoubleSign)
         => /\ pres.err = PARSE_EFORM
            /\ ~pres.conv
            /\ ~pres.wrote
            /\ pres.z = zin
            /\ pres.type = COMPLEX_NONE
    /\ (DoneComplex /\ DoubleSign) => (cres.err = PARSE_EFORM /\ ~FirstTerm.conv)

(* "+-3": each sign alone would have been accepted *)
C9_Witness ==
    /\ DonePart
    /\ text = <<"+", "-", "3">>
    /\ zin = [re |-> Fin(7), im |-> Fin(8)]
    /\ pres.err = PARSE_EFORM
    /\ pres.z = zin

(* The sign of the term, and where the conversion of its coefficient       *)
(* starts (lines 159-171)                                                  *)
TermSign == DefaultSign(parseSign(text, SkipSpace(text, 1)).ret)
TermStart == parseSign(text, parseSign(text, SkipSpace(text, 1)).endptr).endptr

(* No digits follow the optional sign *)
NoDigitsFollow ==
    /\ ~DoubleSign
    /\ ~isdigit(At(text, TermStart))
    /\ ~(At(text, TermStart) = "." /\ isdigit(At(text, TermStart + 1)))

(* strtod converts nothing there: no digits, and no "inf" or "nan" either *)
NothingConverted ==
    /\ ~DoubleSign
    /\ strtod(text, TermStart).endptr = TermStart

NextIsUnit == AtImaginaryUnit(At(text, TermStart))

(* C10 as the specification states it: with no digits after the optional   *)
(* sign the term is recognised if and only if the next character is i or   *)
(* I; it is then imaginary with coefficient 1 or -1; any other             *)
(* continuation is PARSE_EFORM.                                            *)
C10_BareUnitNoDigits ==
    (DonePart /\ NoDigitsFollow)
    => /\ Parsed(pres.err) <=> NextIsUnit
       /\ Parsed(pres.err)
            => /\ pres.type = COMPLEX_IMAGINARY
               /\ cimag(pres.z) = MulSign(Fin(1), TermSign)
       /\ ~Parsed(pres.err) => pres.err = PARSE_EFORM

(* C10: when strtod converts nothing after the optional sign, the term is  *)
(* imaginary with coefficient 1 or -1 if the next character is i or I,     *)
(* stored when that coefficient is within the imaginary lane's bounds and  *)
(* PARSE_ERANGE otherwise; any other continuation is PARSE_EFORM, never    *)
(* PARSE_EERR.                                                             *)
C10_BareUnitNothingConverted ==
    (DonePart /\ NothingConverted)
    => /\ pres.err # PARSE_EERR
       /\ NextIsUnit
            => /\ pres.type = COMPLEX_IMAGINARY
               /\ pres.x = MulSign(Fin(1), TermSign)
               /\ IF OutOfLane(pres.x, cimag(min), cimag(max))
                  THEN pres.err = PARSE_ERANGE /\ pres.z = zin
                  ELSE Parsed(pres.err) /\ cimag(pres.z) = pres.x
                       /\ creal(pres.z) = creal(zin)
       /\ ~NextIsUnit
            => pres.err = PARSE_EFORM /\ pres.z = zin /\ pres.type = COMPLEX_NONE

(* "- I" under the wide bounds: the unit alone, its sign apart *)
C10_Witness ==
    /\ DonePart
    /\ text = <<"-", " ", "I">>
    /\ NothingConverted
    /\ pres.err = PARSE_SUCCESS
    /\ pres.type = COMPLEX_IMAGINARY
    /\ cimag(pres.z) = Fin(-1)

(* C11: stringToComplexPart, lane frame.  The call changes at most the     *)
(* lane of the recognised kind, and only when it returns PARSE_SUCCESS or  *)
(* PARSE_EEND; the other lane keeps its value, and on every other outcome  *)
(* both lanes are unchanged.                                               *)
C11_LaneFrame ==
    DonePart
    => IF Parsed(pres.err)
       THEN OtherLane(pres.z, pres.type) = OtherLane(zin, pres.type)
       ELSE pres.z = zin

(* The coefficient of the term with its sign applied (line 186), also when *)
(* the call returned before applying it, and where its conversion ended    *)
TermCoefficient ==
    IF pres.type # COMPLEX_NONE THEN pres.x ELSE MulSign(pres.x, TermSign)
CoefficientEnd == strtod(text, TermStart).endptr

(* The kind of the term: whether the unit follows the coefficient *)
TermKind ==
    IF AtImaginaryUnit(At(text, SkipSpace(text, CoefficientEnd)))
    THEN COMPLEX_IMAGINARY ELSE COMPLEX_REAL

(* A term whose coefficient was converted, or whose unit stands alone *)
TermRead == DonePart /\ pres.conv /\ pres.err # PARSE_EFORM

(* C12 as the specification states it: the signed coefficient is compared  *)
(* with the lane of min and max of the term's kind; below that lane's min  *)
(* or above its max the term is rejected with PARSE_ERANGE, in both        *)
(* directions, and within the inclusive bounds it is accepted.             *)
C12_LaneBoundsRange ==
    TermRead
    => LET x == TermCoefficient
           kind == TermKind
       IN  /\ (Lt(x, Lane(min, kind)) \/ Gt(x, Lane(max, kind)))
                => pres.err = PARSE_ERANGE
           /\ Within(x, Lane(min, kind), Lane(max, kind))
                => Parsed(pres.err)

(* C12: a finite signed coefficient that the conversion held within the    *)
(* range of double is compared with the lane of min and max of the term's  *)
(* kind, never with the other lane: below that lane's min or above its max *)
(* the term is PARSE_ERANGE and nothing is written, within the inclusive   *)
(* bounds it is accepted and stored.  A coefficient out of the range of    *)
(* double, above it or below it, never reaches the comparison: it is       *)
(* PARSE_ERANGE whatever the lanes hold, and no kind is reported.  Nor     *)
(* does an infinite coefficient: it is PARSE_EMAX, whatever its sign.      *)
C12_LaneBoundsFinite ==
    TermRead
    => LET x == TermCoefficient
           kind == TermKind
       IN  /\ pres.errno = ERANGE
                => (pres.err = PARSE_ERANGE /\ pres.z = zin
                    /\ pres.type = COMPLEX_NONE)
           /\ pres.errno # ERANGE /\ IsFinite(x)
                => /\ pres.type = kind
                   /\ (Lt(x, Lane(min, kind)) \/ Gt(x, Lane(max, kind)))
                        => (pres.err = PARSE_ERANGE /\ pres.z = zin)
                   /\ Within(x, Lane(min, kind), Lane(max, kind))
                        => (Parsed(pres.err) /\ Lane(pres.z, kind) = x)
           /\ pres.errno # ERANGE /\ x \in {PosInf, NegInf}
                => (pres.err = PARSE_EMAX /\ pres.z = zin)

(* "3e-999": the coefficient underflows, it is within every lane and the   *)
(* term is PARSE_ERANGE                                                    *)
C12_Underflow ==
    /\ TermRead
    /\ text = <<"3", "e", "-", "9", "9", "9">>
    /\ pres.errno = ERANGE
    /\ Within(TermCoefficient, Lane(min, TermKind), Lane(max, TermKind))
    /\ pres.err = PARSE_ERANGE

(* "4" under a real lane of -3..3 and an imaginary lane of 0..4 *)
C12_Witness ==
    /\ TermRead
    /\ text = <<"4">>
    /\ creal(max) = Fin(3)
    /\ cimag(max) = Fin(4)
    /\ pres.type = COMPLEX_REAL
    /\ pres.err = PARSE_ERANGE

(* C13: whenever stringToComplexPart returns PARSE_SUCCESS or PARSE_EEND   *)
(* the kind is COMPLEX_REAL or COMPLEX_IMAGINARY, imaginary exactly when   *)
(* the unit follows the coefficient; the default branches are never        *)
(* taken, so neither stringToComplexPart nor stringToComplex returns       *)
(* PARSE_EERR.                                                             *)
C13_KindReported ==
    /\ DonePart
         => /\ pres.err # PARSE_EERR
            /\ Parsed(pres.err)
                 => /\ pres.type \in {COMPLEX_REAL, COMPLEX_IMAGINARY}
                    /\ pres.type = TermKind
    /\ DoneComplex
         => /\ cres.err # PARSE_EERR
            /\ FirstTerm.err # PARSE_EERR
            /\ SecondTerm.err # PARSE_EERR
            /\ Committed
                 => /\ SecondTerm.type \in {COMPLEX_REAL, COMPLEX_IMAGINARY}
                    /\ cres.endptr = SecondTerm.endptr

(* "4 I3": the unit after whitespace makes the term imaginary *)
C13_Witness ==
    /\ DonePart
    /\ text = <<"4", " ", "I", "3">>
    /\ pres.err = PARSE_EEND
    /\ pres.type = COMPLEX_IMAGINARY
    /\ TermKind = COMPLEX_IMAGINARY

----------------------------------------------------------------------------
(* The entry points on their own texts (SpecEntry) *)

Returned == pc = "done" /\ fn # "none" /\ arg # NoArg

EndOfText == Len(text) + 1

(* The text up to the ending cursor *)
Consumed == SubSeq(text, 1, res.endptr - 1)

(* The value an entry point stores *)
ValueOf(r) ==
    IF fn \in {"stringToULong", "stringToUIntMax", "stringToDouble"} THEN r.x
    ELSE IF fn = "stringToMemory" THEN r.bytes
    ELSE r.z

(* The results the same call can give on the text s *)
CallOn(s) ==
    IF fn = "stringToULong"
    THEN {stringToULong(s, arg.nptr, arg.min, arg.max, arg.base, arg.x)}
    ELSE IF fn = "stringToUIntMax"
    THEN {stringToUIntMax(s, arg.nptr, arg.min, arg.max, arg.base, arg.x)}
    ELSE IF fn = "stringToDouble"
    THEN {stringToDouble(s, arg.nptr, arg.min, arg.max)}
    ELSE IF fn = "stringToMemory"
    THEN {stringToMemory(s, arg.nptr, arg.min, arg.max, arg.magnitude, arg.x, u) :
              u \in UndefinedSizes}
    ELSE IF fn = "stringToComplexPart"
    THEN {stringToComplexPart(s, arg.nptr, arg.min, arg.max, arg.z, COMPLEX_NONE)}
    ELSE {stringToComplex(s, arg.nptr, arg.min, arg.max, arg.z, arg.stack)}

(* C14: every entry point returns PARSE_SUCCESS only with the cursor at    *)
(* the terminator, and PARSE_EEND only with the cursor at a character      *)
(* before the terminator that is the first one the recognised value did    *)
(* not consume: the text cut at the cursor parses with PARSE_SUCCESS to    *)
(* the same value.                                                         *)
C14_OutcomeCursor ==
    Returned =>
        /\ res.err = PARSE_SUCCESS => res.endptr = EndOfText
        /\ res.err = PARSE_EEND
             => /\ res.endptr >= arg.nptr
                /\ res.endptr < EndOfText
                /\ \E r \in CallOn(Consumed) :
                      /\ r.err = PARSE_SUCCESS
                      /\ r.endptr = res.endptr
                      /\ ValueOf(r) = ValueOf(res)

(* "4+z" read by stringToComplex: the failed second term is rolled back    *)
(* and the cursor is at the operator                                       *)
C14_Witness ==
    /\ Returned
    /\ fn = "stringToComplex"
    /\ text = <<"4", "+", "z">>
    /\ arg.nptr = 1
    /\ res.err = PARSE_EEND
    /\ res.endptr = 2
    /\ res.ops

(* The cursors a call leaves behind: the one returned and those of the     *)
(* steps it is made of                                                     *)
Cursors ==
    {res.endptr}
    \cup (IF fn = "stringToMemory" THEN {res.d.endptr} ELSE {})
    \cup (IF fn = "stringToComplex"
          THEN {res.first.endptr}
               \cup (IF res.ops THEN {res.partEndptr} ELSE {})
               \cup (IF res.second # NoPart THEN {res.second.endptr} ELSE {})
          ELSE {})

(* C15: for every entry point and every input the ending cursor, and each  *)
(* cursor of the steps of stringToComplex and stringToMemory, lies between *)
(* the starting position and the terminator inclusive, also after a        *)
(* rollback.                                                               *)
C15_CursorRange ==
    Returned => \A c \in Cursors : arg.nptr <= c /\ c <= EndOfText

(* "5 k" read by stringToMemory from the start: the unit recognizer steps  *)
(* over the prefix, finds no 'B', and the cursor is rolled back to the     *)
(* end of the number                                                       *)
C15_Witness ==
    /\ Returned
    /\ fn = "stringToMemory"
    /\ text = <<"5", " ", "k">>
    /\ arg.nptr = 1
    /\ res.err = PARSE_EEND
    /\ ~res.unit
    /\ res.endptr = 2
    /\ res.d.endptr = 2

IntegerCall == Returned /\ fn \in {"stringToULong", "stringToUIntMax"}

(* The radixes the integer parsers accept *)
ValidBase(base) == base = 0 \/ base \in 2..36

(* C16: stringToULong and stringToUIntMax return PARSE_EBASE for every     *)
(* base that is neither 0 nor in 2..36, whatever the text is, before any   *)
(* other check: the value is not written, the conversion is not called     *)
(* and the cursor is the starting position.  For base 0 and the bases      *)
(* 2..36 PARSE_EBASE is never returned.                                    *)
C16_RadixCheck ==
    IntegerCall =>
        IF ValidBase(arg.base)
        THEN res.err # PARSE_EBASE /\ res.conv
        ELSE /\ res.err = PARSE_EBASE
             /\ ~res.wrote
             /\ res.x = arg.x
             /\ ~res.conv
             /\ res.endptr = arg.nptr

(* " 1" in base 1: digits that any valid base accepts, rejected for the    *)
(* base with the cursor still before the whitespace                        *)
C16_Witness ==
    /\ IntegerCall
    /\ fn = "stringToULong"
    /\ text = <<" ", "1">>
    /\ arg.base = 1
    /\ res.err = PARSE_EBASE
    /\ res.x = PriorValue
    /\ res.endptr = 1

(* A call of a primitive converter that gets as far as the conversion *)
PrimitiveCall ==
    /\ Returned
    /\ \/ fn = "stringToDouble"
       \/ fn \in {"stringToULong", "stringToUIntMax"} /\ ValidBase(arg.base)

(* Where the conversion starts, and what the C library returns from there *)
ConvStart == IF fn = "stringToDouble" THEN arg.nptr ELSE SkipSpace(text, arg.nptr)

Converted ==
    IF fn = "stringToDouble" THEN strtod(text, ConvStart)
    ELSE IF fn = "stringToULong" THEN strtoul(text, ConvStart, arg.base)
    ELSE strtoumax(text, ConvStart, arg.base)

Overflowed(r) == IF fn = "stringToDouble" THEN r.erange ELSE r.errno = ERANGE

Below(v, b) == IF fn = "stringToDouble" THEN Lt(v, b) ELSE BigLt(v, b)

(* The outcome by the ladder of six rungs *)
Ladder(r) ==
    IF r.endptr = ConvStart THEN PARSE_EERR
    ELSE IF Overflowed(r) THEN PARSE_ERANGE
    ELSE IF Below(r.x, arg.min) THEN PARSE_EMIN
    ELSE IF Below(arg.max, r.x) THEN PARSE_EMAX
    ELSE IF r.endptr < EndOfText THEN PARSE_EEND
    ELSE PARSE_SUCCESS

(* The rung the integer parsers have below the one of max: a leading '-'   *)
(* before a value that is not zero                                         *)
NegativeRung(r) ==
    /\ fn # "stringToDouble"
    /\ At(text, ConvStart) = "-"
    /\ r.x # <<>>

(* C17 as stated: stringToULong, stringToUIntMax and stringToDouble decide *)
(* the outcome by six rungs, first match wins: nothing converted gives     *)
(* PARSE_EERR, else overflow or underflow PARSE_ERANGE, else value < min   *)
(* PARSE_EMIN, else value > max PARSE_EMAX, else unconsumed text           *)
(* PARSE_EEND, else PARSE_SUCCESS.                                         *)
C17_Ladder ==
    PrimitiveCall => LET r == Converted IN res.err = Ladder(r)

(* C17, amended: stringToDouble decides by the six rungs; the integer      *)
(* parsers have one more rung between PARSE_EMAX and PARSE_EEND, where a   *)
(* leading '-' before a nonzero converted value gives PARSE_EMIN.  Bounds  *)
(* are inclusive and win over trailing text.                               *)
C17_LadderWithSign ==
    PrimitiveCall =>
        LET r == Converted
            rung == Ladder(r)
        IN  res.err = IF rung \in {PARSE_EEND, PARSE_SUCCESS} /\ NegativeRung(r)
                      THEN PARSE_EMIN
                      ELSE rung

(* "100" with min 0, max 50 and base 10 gives PARSE_EMAX *)
C17_Witness ==
    /\ PrimitiveCall
    /\ fn = "stringToULong"
    /\ text = <<"1", "0", "0">>
    /\ arg.base = 10
    /\ arg.min = <<>>
    /\ arg.max = <<5, 0>>
    /\ res.err = PARSE_EMAX
    /\ res.x = <<1, 0, 0>>

(* The text at the conversion is a '-' followed by digits of a magnitude   *)
(* that is not zero                                                        *)
NegativeNonzero ==
    /\ At(text, ConvStart) = "-"
    /\ Converted.endptr > ConvStart
    /\ Converted.x # <<>>

(* C18: stringToULong and stringToUIntMax reject with PARSE_EMIN every     *)
(* text whose first non-whitespace character is '-' and whose digits       *)
(* denote a nonzero magnitude, for every min and max; a leading '-' is     *)
(* accepted only when the magnitude is zero.                               *)
C18_NegativeRejected ==
    /\ IntegerCall /\ ValidBase(arg.base) /\ NegativeNonzero
         => res.err = PARSE_EMIN
    /\ IntegerCall /\ ValidBase(arg.base) /\ At(text, ConvStart) = "-"
         /\ res.err \in {PARSE_SUCCESS, PARSE_EEND}
         => res.x = <<>>

(* The position after the optional sign at the conversion *)
AfterSign == IF At(text, ConvStart) \in {"+", "-"} THEN ConvStart + 1 ELSE ConvStart

(* After whitespace and sign the text has no digit of the base; with the   *)
(* automatic base 0 every decimal digit starts a number                    *)
NoDigitOfBase ==
    DigitValue(At(text, AfterSign)) >= (IF arg.base = 0 THEN 10 ELSE arg.base)

(* C19 as stated: for every text that begins with a digit outside the base *)
(* or has no digits, also after leading whitespace, stringToULong and      *)
(* stringToUIntMax return PARSE_EERR with the ending cursor at the         *)
(* starting position the caller passed.                                    *)
C19_NoDigitsCursorAtStart ==
    IntegerCall /\ ValidBase(arg.base) /\ NoDigitOfBase
        => res.err = PARSE_EERR /\ res.endptr = arg.nptr

(* C19, amended: such a text gives PARSE_EERR, the value written is 0, and *)
(* the ending cursor is at the first character that is not whitespace; it  *)
(* is the starting position exactly when no whitespace leads the text.     *)
C19_NoDigitsCursorAfterSpace ==
    IntegerCall /\ ValidBase(arg.base) /\ NoDigitOfBase
        => /\ res.err = PARSE_EERR
           /\ res.endptr = SkipSpace(text, arg.nptr)
           /\ res.wrote
           /\ res.x = <<>>
           /\ res.endptr = arg.nptr <=> ~isspace(At(text, arg.nptr))

(* " f" in base 10: the cursor is left at the 'f' *)
C19_Witness ==
    /\ IntegerCall
    /\ text = <<" ", "f">>
    /\ arg.base = 10
    /\ arg.nptr = 1
    /\ NoDigitOfBase
    /\ res.err = PARSE_EERR
    /\ res.endptr = 2

MemoryCall == Returned /\ fn = "stringToMemory"

(* Where a unit would start: after the number and the whitespace that      *)
(* follows it                                                              *)
UnitStart == SkipSpace(text, res.d.endptr)

(* The text has the suffix number i at UnitStart: 0 is the bare 'B', i > 0 *)
(* the i-th prefix letter followed by 'B', letters of either case          *)
SuffixAt(i) ==
    IF i = 0 THEN toupper(At(text, UnitStart)) = "B"
    ELSE /\ toupper(At(text, UnitStart)) = toupper(BYTE_PREFIXES[i])
         /\ toupper(At(text, UnitStart + 1)) = "B"

SuffixExponent(i) == IF i = 0 THEN MEM_B ELSE MemMag[i]

SuffixLength(i) == IF i = 0 THEN 1 ELSE 2

(* Default magnitudes a caller may pass *)
DefaultMagnitudes == {-1, MEM_B, MEM_KB, MEM_MB, MEM_YB}

(* The conversion of the double x to size_t is defined: x is a number     *)
(* that is not negative and whose whole part the type holds                *)
SizeDefined(x) ==
    /\ x.cls = "finite" /\ ~x.neg
    /\ LBitLen(x.mant) + x.exp <= 64
    /\ ~BigGt(Truncate(x), SIZE_MAX)

(* C20: in stringToMemory a prefix letter k, M, G, T, P, E, Z, Y of either *)
(* case followed by 'B' or 'b' selects the exponent 3, 6, ..., 24 of the   *)
(* MemMag constant of that unit and a bare 'B' selects 0; the number is    *)
(* multiplied by 10 to that exponent, as doubles are, and the outcome, the *)
(* bytes and the cursor are the same for every default magnitude.          *)
C20_UnitSuffix ==
    MemoryCall /\ res.d.err = PARSE_EEND =>
        \A i \in 0..Len(BYTE_PREFIXES) :
            SuffixAt(i) =>
                /\ res.unit
                /\ res.unitPrefix = SuffixExponent(i)
                /\ res.x = ScalePow10(res.d.x, SuffixExponent(i))
                /\ res.endptr = UnitStart + SuffixLength(i)
                /\ res.wrote /\ SizeDefined(res.x) => res.bytes = Truncate(res.x)
                /\ \A g \in DefaultMagnitudes :
                      \E r \in {stringToMemory(text, arg.nptr, arg.min, arg.max, g,
                                               arg.x, u) : u \in UndefinedSizes} :
                          /\ r.err = res.err
                          /\ r.bytes = res.bytes
                          /\ r.endptr = res.endptr
                          /\ r.x = res.x

(* "5gB" with the default magnitude MEM_MB is 5000000000 bytes *)
C20_Witness ==
    /\ MemoryCall
    /\ text = <<"5", "G", "b">>
    /\ arg.magnitude = MEM_MB
    /\ SuffixAt(3)
    /\ res.err = PARSE_SUCCESS
    /\ res.unitPrefix = MEM_GB
    /\ res.bytes = <<5, 0, 0, 0, 0, 0, 0, 0, 0, 0>>

(* The bytes are within the caller's bounds, which are inclusive *)
WithinBytes(b) == ~BigLt(b, arg.min) /\ ~BigGt(b, arg.max)

(* The number x times 10^p, for a number x the text states exactly, as a   *)
(* decimal                                                                 *)
TimesPow10(x, p) == Norm(x.m, x.e + p)

(* The whole part of the decimal x >= 0 *)
DecimalWhole(x) ==
    IF x.e >= 0 THEN BigNorm(NatToBig(x.m) \o Zeros(x.e))
    ELSE IF NumDigits(x.m) <= -x.e THEN <<>>
    ELSE NatToBig(x.m \div Pow10(-x.e))

(* The decimal x is a whole number that a double holds exactly, as is      *)
(* every whole number below 2^53                                           *)
WholeBelow2Pow53(x) ==
    /\ IsExact(x) /\ x.m >= 0 /\ x.e >= 0 /\ NumDigits(x.m) + x.e <= 15

(* The number is scaled exactly: the bytes are the whole part of the       *)
(* number of the text times 10^magnitude whenever size_t holds it          *)
C21_ExactScaling ==
    MemoryCall /\ res.d.err = PARSE_SUCCESS /\ IsExact(res.d.x) /\ res.d.x.m >= 0
               /\ NumDigits(res.d.x.m) + res.d.x.e + arg.magnitude <= Len(SIZE_MAX)
               /\ ~BigGt(DecimalWhole(TimesPow10(res.d.x, arg.magnitude)), SIZE_MAX)
        => /\ res.wrote
           /\ res.bytes = DecimalWhole(TimesPow10(res.d.x, arg.magnitude))

(* "1.001" with magnitude 3: the double nearest 1.001 is below it and the  *)
(* product with 1000 is 1000.9999999999999                                 *)
C21_RoundedProduct ==
    /\ MemoryCall
    /\ text = <<"1", ".", "0", "0", "1">>
    /\ arg.magnitude = MEM_KB
    /\ res.err = PARSE_SUCCESS
    /\ res.bytes = <<1, 0, 0, 0>>

(* C21: stringToMemory without a suffix.  When the number consumes the     *)
(* whole text no unit is looked for and the number is multiplied by        *)
(* pow(10, magnitude) in double arithmetic (by 1 for magnitude 0); when    *)
(* the product is in the range of size_t its whole part is stored, which   *)
(* is the number times 10^magnitude itself when the number is a whole      *)
(* number and the product is below 2^53, and when the stored count is      *)
(* within min and max the outcome is PARSE_SUCCESS with the cursor at the  *)
(* terminator.                                                             *)
C21_DefaultMagnitude ==
    MemoryCall /\ res.d.err = PARSE_SUCCESS =>
        /\ ~res.unit
        /\ res.unitPrefix = arg.magnitude
        /\ res.x = BinMul(ToBinary(res.d.x), PowTen(arg.magnitude))
        /\ SizeDefined(res.x)
             => /\ res.wrote
                /\ res.bytes = Truncate(res.x)
                /\ arg.magnitude = 0 => res.bytes = Truncate(ToBinary(res.d.x))
                /\ WholeBelow2Pow53(res.d.x) /\ arg.magnitude >= 0
                   /\ WholeBelow2Pow53(TimesPow10(res.d.x, arg.magnitude))
                     => res.bytes = DecimalWhole(TimesPow10(res.d.x, arg.magnitude))
                /\ WithinBytes(res.bytes)
                     => res.err = PARSE_SUCCESS /\ res.endptr = EndOfText

(* "5" with magnitude 6 is 5000000 bytes *)
C21_Witness ==
    /\ MemoryCall
    /\ text = <<"5">>
    /\ arg.magnitude = MEM_MB
    /\ res.d.err = PARSE_SUCCESS
    /\ res.err = PARSE_SUCCESS
    /\ res.bytes = <<5, 0, 0, 0, 0, 0, 0>>

(* Text follows the number and it is not a unit: neither a bare 'B' nor a  *)
(* prefix letter with its 'B'                                              *)
NoUnitFollows ==
    /\ res.d.err = PARSE_EEND
    /\ \A i \in 0..Len(BYTE_PREFIXES) : ~SuffixAt(i)

(* C22: stringToMemory with text after the number that is not a unit       *)
(* scales by the caller's magnitude, puts the cursor back immediately      *)
(* after the number (not after a prefix letter or the whitespace the unit  *)
(* parser passed) and returns PARSE_EEND unless the range check or a bound *)
(* fails; no call returns PARSE_EFORM.                                     *)
C22_UnrecognisedSuffix ==
    /\ MemoryCall => res.err # PARSE_EFORM
    /\ MemoryCall /\ NoUnitFollows =>
        /\ ~res.unit
        /\ res.unitPrefix = arg.magnitude
        /\ res.x = ScalePow10(res.d.x, arg.magnitude)
        /\ res.endptr = res.d.endptr
        /\ res.endptr < EndOfText
        /\ res.err \in {PARSE_EEND, PARSE_ERANGE, PARSE_EMIN, PARSE_EMAX}
        /\ res.err # PARSE_ERANGE /\ WithinBytes(res.bytes) => res.err = PARSE_EEND
        /\ res.err = PARSE_EEND => res.wrote /\ WithinBytes(res.bytes)

(* "5kx" with magnitude 6: the prefix letter is given back *)
C22_Witness ==
    /\ MemoryCall
    /\ text = <<"5", "k", "x">>
    /\ arg.magnitude = MEM_MB
    /\ NoUnitFollows
    /\ res.err = PARSE_EEND
    /\ res.endptr = 2
    /\ res.bytes = <<5, 0, 0, 0, 0, 0, 0>>

(* The double x is above SIZE_MAX = 2^64 - 1, x being a number or an       *)
(* infinity                                                                *)
ExceedsSizeMax(x) ==
    /\ x.cls # "nan" /\ ~x.neg
    /\ \/ x.cls = "inf"
       \/ LBitLen(x.mant) + x.exp > 64

(* C23: stringToMemory decides its outcome in this order, first match      *)
(* wins: a failure of the number parse is returned as it is, before any    *)
(* scaling (PARSE_EMIN for every negative number that is not zero); then a *)
(* scaled value that is negative or exceeds SIZE_MAX gives PARSE_ERANGE    *)
(* and the output is not written; then the caller's min and max give       *)
(* PARSE_EMIN and PARSE_EMAX; then remaining text gives PARSE_EEND; else   *)
(* PARSE_SUCCESS.                                                          *)
C23_CheckOrder ==
    MemoryCall =>
        /\ Lt(res.d.x, Zero) => res.err = PARSE_EMIN
        /\ IF res.d.err \notin {PARSE_SUCCESS, PARSE_EEND}
           THEN res.err = res.d.err /\ ~res.wrote
           ELSE IF BelowZero(res.x) \/ ExceedsSizeMax(res.x)
           THEN res.err = PARSE_ERANGE /\ ~res.wrote
           ELSE /\ res.wrote
                /\ res.err = IF BigLt(res.bytes, arg.min) THEN PARSE_EMIN
                             ELSE IF BigGt(res.bytes, arg.max) THEN PARSE_EMAX
                             ELSE IF res.endptr < EndOfText THEN PARSE_EEND
                             ELSE PARSE_SUCCESS

(* The whole part of a scaled value that is not negative *)
WholePart(x) == IF x.cls = "finite" THEN Truncate(x) ELSE <<>>

(* C24: stringToMemory converts the scaled value to the byte count by      *)
(* truncation toward zero ("1.5B" is 1 byte, "1.5kB" 1500), and min and    *)
(* max are compared with the truncated count, not with the scaled value.   *)
C24_Truncation ==
    MemoryCall /\ res.wrote =>
        /\ res.x.cls = "finite"
        /\ res.bytes = WholePart(res.x)
        /\ res.err = PARSE_EMIN <=> BigLt(WholePart(res.x), arg.min)
        /\ res.err = PARSE_EMAX
             <=> ~BigLt(WholePart(res.x), arg.min) /\ BigGt(WholePart(res.x), arg.max)

(* What errno holds before the call: a value no conversion sets *)
EDOM == 33

(* The results of a call with the arguments of the last one, whatever the  *)
(* memory it finds holds                                                   *)
SameCall ==
    IF fn = "stringToComplex"
    THEN {stringToComplex(text, arg.nptr, arg.min, arg.max, arg.z, m.stack) :
              m \in Memories}
    ELSE CallOn(text)

(* C25: two calls of a parser with the same text, bounds, extra parameters *)
(* and prior value return the same outcome, value and cursor, and a call   *)
(* leaves errno as it found it.                                            *)
C25_Purity ==
    Returned =>
        /\ \A r \in SameCall :
              /\ r.err = res.err
              /\ ValueOf(r) = ValueOf(res)
              /\ r.endptr = res.endptr
        /\ fn = "stringToDouble" => res.errno = EDOM

(* C26: sign composition.  When stringToComplex commits both terms, the    *)
(* lane of the second term holds operator * (own sign * coefficient) and   *)
(* the lane of the first term still holds the first term's value.          *)
C26_SignComposition ==
    (DoneComplex /\ Committed)
    => /\ Lane(cres.z, SecondTerm.type) = MulSign(SecondTerm.x, Operator)
       /\ Lane(cres.z, FirstTerm.type) = FirstTerm.x

(* The last position at or before p that holds no whitespace, or 0 *)
RECURSIVE SkipSpaceBack(_, _)
SkipSpaceBack(s, p) == IF p >= 1 /\ isspace(At(s, p)) THEN SkipSpaceBack(s, p - 1) ELSE p

(* The text from the ending cursor on is not empty and all whitespace *)
WhitespaceTail ==
    /\ res.endptr <= Len(text)
    /\ \A p \in res.endptr..Len(text) : isspace(text[p])

(* Text other than whitespace remains at or after the ending cursor *)
NonSpaceRemains == \E p \in res.endptr..Len(text) : ~isspace(text[p])

ComplexCall == Returned /\ fn \in {"stringToComplex", "stringToComplexPart"}

(* C27 as stated: an entry point that stored a value returns PARSE_EEND    *)
(* exactly when text other than whitespace remains after the value; a      *)
(* value followed by whitespace alone gives PARSE_SUCCESS.                 *)
C27_TrailingNonWhitespace ==
    (Returned /\ Parsed(res.err)) => (res.err = PARSE_EEND <=> NonSpaceRemains)

(* C27: an entry point that stored a value returns PARSE_EEND exactly when *)
(* the ending cursor is before the terminator, whatever the character      *)
(* there: text other than whitespace always gives PARSE_EEND, and so does  *)
(* whitespace alone, which only the complex parsers consume, and only      *)
(* where they look for the imaginary unit (so whitespace is left over by   *)
(* them only directly after a unit).                                       *)
C27_TrailingAnyCharacter ==
    (Returned /\ Parsed(res.err))
    => /\ res.err = PARSE_EEND <=> res.endptr <= Len(text)
       /\ NonSpaceRemains => res.err = PARSE_EEND
       /\ WhitespaceTail => res.err = PARSE_EEND
       /\ (ComplexCall /\ WhitespaceTail)
            => AtImaginaryUnit(At(text, res.endptr - 1))
       /\ (ComplexCall /\ res.err = PARSE_SUCCESS /\ res.endptr > 1)
            => (isspace(At(text, res.endptr - 1))
                  => ~AtImaginaryUnit(At(text, SkipSpaceBack(text, res.endptr - 1))))

(* "5 " given to stringToDouble: PARSE_EEND with the cursor at the space *)
C27_Witness ==
    /\ Returned
    /\ fn = "stringToDouble"
    /\ text = <<"5", " ">>
    /\ res.err = PARSE_EEND
    /\ res.endptr = 2
    /\ WhitespaceTail

(* stringToComplexPart called parseImaginaryUnit (line 188): the kind is   *)
(* assigned there and nowhere else.  It is called with the cursor the      *)
(* conversion of the coefficient left, and its cursor is the one returned  *)
UnitCalled == DonePart /\ pres.type # COMPLEX_NONE

(* C28 as stated: parseImaginaryUnit returns COMPLEX_IMAGINARY with the    *)
(* cursor one character on if the character at the position passed in is  *)
(* i or I, and otherwise COMPLEX_REAL with the cursor at the position      *)
(* passed in.                                                              *)
C28_UnitAtCursor ==
    UnitCalled
    => IF AtImaginaryUnit(At(text, CoefficientEnd))
       THEN pres.type = COMPLEX_IMAGINARY /\ pres.endptr = CoefficientEnd + 1
       ELSE pres.type = COMPLEX_REAL /\ pres.endptr = CoefficientEnd

(* C28: parseImaginaryUnit first skips whitespace; if the character then   *)
(* met is i or I it returns COMPLEX_IMAGINARY with the cursor one past it, *)
(* otherwise COMPLEX_REAL with the cursor at that character.  The cursor   *)
(* equals the position passed in only when the kind is real and no         *)
(* whitespace stands there.                                                *)
C28_UnitAfterSpace ==
    UnitCalled
    => LET p == SkipSpace(text, CoefficientEnd)
       IN /\ IF AtImaginaryUnit(At(text, p))
             THEN pres.type = COMPLEX_IMAGINARY /\ pres.endptr = p + 1
             ELSE pres.type = COMPLEX_REAL /\ pres.endptr = p
          /\ pres.endptr = CoefficientEnd
               <=> pres.type = COMPLEX_REAL /\ ~isspace(At(text, CoefficientEnd))

(* "3 i": the unit is found after the space and the cursor moves by two *)
C28_Witness ==
    /\ DonePart
    /\ text = <<"3", " ", "i">>
    /\ CoefficientEnd = 2
    /\ pres.type = COMPLEX_IMAGINARY
    /\ pres.endptr = 4

(* The graphical characters of s, in order *)
RECURSIVE Graphical(_)
Graphical(s) ==
    IF s = <<>> THEN <<>>
    ELSE IF isgraph(Head(s)) THEN <<Head(s)>> \o Graphical(Tail(s))
    ELSE Graphical(Tail(s))

GraphDone == pc = "done" /\ fn = "strncpyGraph"

(* C29: for every src and every n, n = 0 and n = 1 included, strncpyGraph  *)
(* writes at most n characters into dest, the terminator included; dest    *)
(* then holds the first graphical characters of src in order, followed by  *)
(* the terminator; the value returned is the length of dest and is at most *)
(* n - 1 in size_t arithmetic.                                             *)
C29_GraphCopy ==
    GraphDone
    => /\ Cardinality(res.written) <= arg.n
       /\ \A k \in 0..Len(text) : k \notin res.written => res.dest[k] = "?"
       /\ \A k \in 0..(res.ret - 1) : res.dest[k] = Graphical(text)[k + 1]
       /\ res.dest[res.ret] = NUL
       /\ ~BigGt(NatToBig(res.ret), NMinusOne(arg.n))
       /\ res = strncpyGraph(PriorDest(text), text, arg.n)

(* The outcomes the parse of option o can return *)
Outcomes(o) == {r.err : r \in UNION {DemoResults(o, v) : v \in DemoMemories}}

(* The loop went on after this option: it was not parsed, or its parse     *)
(* returned PARSE_SUCCESS or PARSE_EEND                                    *)
Passed(e) ==
    IF e.parsed THEN Parsed(e.err) ELSE e.id \in {UnknownOption, MissingArgument}

(* What stderr holds after the options of trace t: a line for every parse  *)
(* that did not return PARSE_SUCCESS, in the order of the options          *)
RECURSIVE Reports(_)
Reports(t) ==
    IF t = <<>> THEN <<>>
    ELSE (IF Head(t).parsed /\ Head(t).err # PARSE_SUCCESS
          THEN <<[opt |-> Head(t).id, msg |-> DemoMessage(Head(t).err)]>>
          ELSE <<>>) \o Reports(Tail(t))

DemoExited == fn = "main" /\ pc = "exit"

(* C30: the demo handles its options in command-line order; after a parse  *)
(* that returns PARSE_EEND it writes a warning and goes on; at the first   *)
(* parse that returns another outcome than PARSE_SUCCESS it writes a       *)
(* diagnostic and exits with status 1, no later option being handled and   *)
(* no value printed.  Values are printed and status 0 is returned only if  *)
(* every parse returned PARSE_SUCCESS or PARSE_EEND.                       *)
C30_DemoLoop ==
    fn = "main"
    => LET argv == arg.argv
           n == res.optind
           trace == res.trace
       IN /\ n <= Len(argv) /\ Len(trace) = n
          /\ \A k \in 1..n :
                /\ trace[k].id = argv[k].id
                /\ trace[k].parsed => trace[k].err \in Outcomes(argv[k])
          /\ \A k \in 1..(n - 1) : Passed(trace[k])
          /\ res.stderr = Reports(IF pc = "switch" THEN SubSeq(trace, 1, n - 1)
                                 ELSE trace)
          /\ pc # "exit" => res.stdout = <<>>
          /\ pc = "exit"
               => IF n > 0 /\ ~Passed(trace[n])
                  THEN /\ res.stdout = <<>>
                       /\ res.killed <=> ~trace[n].parsed
                       /\ ~res.killed
                            => /\ res.status = ExitFailure
                               /\ res.stderr[Len(res.stderr)].msg
                                    # DemoMessage(PARSE_EEND)
                  ELSE /\ n = Len(argv)
                       /\ ~res.killed
                       /\ res.status = ExitSuccess
                       /\ {res.stdout[k].opt : k \in 1..Len(res.stdout)}
                            = {trace[k].id : k \in {j \in 1..n : trace[j].parsed}}
          /\ (res.stdout # <<>> \/ (pc = "exit" /\ ~res.killed
                                      /\ res.status = ExitSuccess))
               => \A k \in 1..Len(argv) :
                     IsParsed(argv[k].id)
                       => ~argv[k].null /\ \A e \in Outcomes(argv[k]) : Parsed(e)

(* "-u 5x -d x": a warning for -u, a diagnostic for -d, status 1 and       *)
(* nothing printed                                                         *)
C30_Witness ==
    /\ DemoExited
    /\ arg.argv = <<[id |-> "u", optarg |-> <<"5", "x">>, null |-> FALSE],
                    [id |-> "d", optarg |-> <<"x">>, null |-> FALSE]>>
    /\ res.stderr = <<[opt |-> "u", msg |-> "WARNING: Argument not fully parsed"],
                      [opt |-> "d", msg |-> "Unknown parse error"]>>
    /\ res.status = ExitFailure
    /\ res.stdout = <<>>

====
